---- MODULE Spec2Model ----
(***************************************************************************)
(* The workflow data store manager of cylc/flow/data_store_mgr.py:         *)
(* DataStoreMgr, apply_delta and the delta buffers.                        *)
(*                                                                         *)
(* Identifiers.  The code builds ids by joining strings with ID_DELIM; the *)
(* model keeps the joined components as tuples:                            *)
(*   task / family definition id   the name                "A"             *)
(*   task / family proxy id        <<point, name>>         <<1, "A">>      *)
(*   graph node (TaskID)           <<name, point>>         <<"A", 1>>      *)
(*   edge id                       <<s_node, t_node>>                      *)
(* The workflow id prefix is the same in every id and is left out.         *)
(*                                                                         *)
(* Messages.  A protobuf message is a function from the names of the       *)
(* fields that are set to their values; a field that is not set is not in  *)
(* the DOMAIN and reads as its default.  A repeated or map field is set    *)
(* exactly when it is non-empty.  A stamp "id@time" is kept as the time.   *)
(***************************************************************************)
EXTENDS Integers, Sequences, FiniteSets, Bags, TLC

\* ---------------------------------------------------------------- bounds
MaxPoint == 3
MaxPoolWidth == 2
MaxIter == 2

\* ------------------------------------------------------------ kind names
EDGES == "edges"
FAMILIES == "families"
FAMILY_PROXIES == "family_proxies"
JOBS == "jobs"
TASKS == "tasks"
TASK_PROXIES == "task_proxies"
WORKFLOW == "workflow"

\* The order in which self.deltas is iterated (dict insertion order).
KindOrder ==
    <<EDGES, FAMILIES, FAMILY_PROXIES, JOBS, TASKS, TASK_PROXIES, WORKFLOW>>

DictKinds == {EDGES, FAMILIES, FAMILY_PROXIES, JOBS, TASKS, TASK_PROXIES}

CLEAR_FIELD_MAP ==
    [k \in DictKinds \cup {WORKFLOW} |->
        IF k \in {FAMILY_PROXIES, WORKFLOW} THEN {"state_totals", "states"}
        ELSE IF k = TASK_PROXIES THEN {"prerequisites", "outputs"}
        ELSE {}]

\* ------------------------------------------------------ message algebra
RepeatedFields ==
    {"proxies", "child_tasks", "child_families", "ancestors", "edges",
     "states", "tasks", "families", "task_proxies", "family_proxies",
     "prerequisites", "jobs"}

MapFields == {"state_totals"}

EmptyMsg == <<>>

Get(msg, f, d) == IF f \in DOMAIN msg THEN msg[f] ELSE d

ClearField(msg, f) == [x \in DOMAIN msg \ {f} |-> msg[x]]

\* Assignment to a field; an empty repeated or map value leaves it unset.
SetField(msg, f, v) ==
    IF f \in RepeatedFields \cup MapFields /\ DOMAIN v = {}
    THEN ClearField(msg, f)
    ELSE (f :> v) @@ msg

AppendField(msg, f, v) == (f :> Append(Get(msg, f, <<>>), v)) @@ msg

ExtendField(msg, f, s) == SetField(msg, f, Get(msg, f, <<>>) \o s)

ListFields(msg) == DOMAIN msg

MergeFrom(dst, src) ==
    [f \in DOMAIN dst \cup DOMAIN src |->
        IF f \notin DOMAIN src THEN dst[f]
        ELSE IF f \notin DOMAIN dst THEN src[f]
        ELSE IF f \in RepeatedFields THEN dst[f] \o src[f]
        ELSE IF f \in MapFields THEN src[f] @@ dst[f]
        ELSE src[f]]

\* list.remove(x): drops the first occurrence.
RECURSIVE RemoveFirst(_, _)
RemoveFirst(s, x) ==
    IF s = <<>> THEN <<>>
    ELSE IF Head(s) = x THEN Tail(s)
    ELSE <<Head(s)>> \o RemoveFirst(Tail(s), x)

InSeq(x, s) == \E i \in 1..Len(s) : s[i] = x

SeqToSet(s) == {s[i] : i \in 1..Len(s)}

Min(S) == CHOOSE x \in S : \A y \in S : x <= y
Max(S) == CHOOSE x \in S : \A y \in S : x >= y

\* ------------------------------------------------- scheduler configuration
\* schd.config of the modelled workflow, configuration 1:
\*   [runtime] root > F > {A, B};  root > C
\*   graph     R1 = "C";  P1 = "A => B";  P1 = "C[-P1] => A"
\* and configuration 2, which a reload brings in and which drops task B:
\*   [runtime] root > F > {A};  root > C
\*   graph     R1 = "C";  P1 = "C[-P1] => A"
VARIABLE config      \* the configuration schd.config holds: 1 or 2

Points == 1..MaxPoint
InitialPoint == 1

TaskNames == IF config = 1 THEN <<"A", "B", "C">> ELSE <<"A", "C">>
AllNames ==
    IF config = 1 THEN <<"A", "B", "C", "F", "root">>
    ELSE <<"A", "C", "F", "root">>

get_first_parent_ancestors ==
    [n \in SeqToSet(AllNames) |->
        CASE n = "A" -> <<"A", "F", "root">>
          [] n = "B" -> <<"B", "F", "root">>
          [] n = "C" -> <<"C", "root">>
          [] n = "F" -> <<"F", "root">>
          [] OTHER -> <<"root">>]

get_parent_lists ==
    [n \in SeqToSet(AllNames) |->
        CASE n \in {"A", "B"} -> <<"F">>
          [] n \in {"C", "F"} -> <<"root">>
          [] OTHER -> <<>>]

\* Graph edge templates <<left name, left offset, right name>> of the
\* recurring sections, and the tasks of the R1 section.
GraphTemplates ==
    IF config = 1 THEN << <<"A", 0, "B">>, <<"C", -1, "A">> >>
    ELSE << <<"C", -1, "A">> >>
R1Tasks == <<"C">>

\* A missing (None) graph node.
NoNode == <<>>

\* config.get_graph_edges(p, p): the right node of every edge is at p, the
\* left node at p + offset; a left node before the initial point is dropped
\* and the right node kept as a lone source; R1 tasks are lone sources at
\* the initial point.  Entries are <<s_node, t_node>>.
RECURSIVE TemplateEdges(_, _)
TemplateEdges(ts, p) ==
    IF ts = <<>> THEN <<>>
    ELSE LET t == Head(ts)
             e == IF p + t[2] < InitialPoint
                  THEN << <<t[3], p>>, NoNode >>
                  ELSE << <<t[1], p + t[2]>>, <<t[3], p>> >>
         IN <<e>> \o TemplateEdges(Tail(ts), p)

get_graph_edges(p) ==
    (IF p = InitialPoint
     THEN [i \in 1..Len(R1Tasks) |-> << <<R1Tasks[i], p>>, NoNode >>]
     ELSE <<>>)
    \o TemplateEdges(GraphTemplates, p)

is_valid_id(node) == node # NoNode /\ node[1] \in SeqToSet(TaskNames)

\* ------------------------------------------------------------- the store
EmptyStore ==
    [edges |-> <<>>, families |-> <<>>, family_proxies |-> <<>>,
     jobs |-> <<>>, tasks |-> <<>>, task_proxies |-> <<>>,
     workflow |-> EmptyMsg]

\* A time or checksum field that is not set.
NoTime == 0
NoChecksum == <<0, 0>>

\* A cleared per-kind deltas message.  added and updated hold the elements
\* by id (the workflow's hold one message each); pruned holds ids.
EmptyDelta ==
    [added |-> <<>>, updated |-> <<>>, pruned |-> {},
     time |-> NoTime, reloaded |-> FALSE, checksum |-> NoChecksum]

EmptyDeltas == [k \in DictKinds \cup {WORKFLOW} |-> EmptyDelta]

\* A point that is not set (None).
NoPoint == 0

\* dict[key] = value
Put(dict, key, value) == (key :> value) @@ dict

\* ------------------------------------------------------------ the job pool
\* schd.job_pool by its interface: pool (job id -> job), task_jobs (task
\* proxy id -> job ids), added and updated (job id -> job), deltas (of which
\* the pruned ids are used), updates_pending.  calls keeps the task proxy
\* ids remove_task_jobs has been called with since the running handler was
\* entered.  The interface leaves open whether the job pool writes its pool
\* itself or leaves that to the application of its deltas; writes_pool
\* tells which of the two this job pool does.
EmptyJobPool ==
    [pool |-> <<>>, task_jobs |-> <<>>, added |-> <<>>, updated |-> <<>>,
     deltas |-> EmptyDelta, updates_pending |-> FALSE, calls |-> {},
     writes_pool |-> FALSE]

\* A job message; owner names the component that made the message object.
PbJob(j_id, tp_id, t) ==
    [id |-> j_id, stamp |-> t, task_proxy |-> tp_id, state |-> "submitted",
     owner |-> "job_pool"]

\* The job pool takes a new job of the task proxy.
insert_job(jp, tp_id, t) ==
    LET j_id == <<tp_id, Len(Get(jp.task_jobs, tp_id, <<>>)) + 1>>
    IN [jp EXCEPT
          !.added = Put(@, j_id, PbJob(j_id, tp_id, t)),
          !.pool = IF jp.writes_pool
                   THEN Put(@, j_id, PbJob(j_id, tp_id, t)) ELSE @,
          !.task_jobs = Put(@, tp_id, Append(Get(@, tp_id, <<>>), j_id)),
          !.updates_pending = TRUE]

\* remove_task_jobs(tp_id): the jobs of the task proxy are flagged for
\* pruning and the task proxy leaves task_jobs.
remove_task_jobs(jp, tp_id) ==
    LET jobs == SeqToSet(Get(jp.task_jobs, tp_id, <<>>))
    IN [jp EXCEPT
          !.pool = IF jp.writes_pool
                   THEN [j \in DOMAIN @ \ jobs |-> @[j]] ELSE @,
          !.deltas.pruned = @ \cup jobs,
          !.task_jobs = [x \in DOMAIN @ \ {tp_id} |-> @[x]],
          !.updates_pending = TRUE,
          !.calls = @ \cup {tp_id}]

RECURSIVE RemoveTaskJobs(_, _)
RemoveTaskJobs(jp, tp_ids) ==
    IF tp_ids = {} THEN jp
    ELSE LET tp_id == CHOOSE x \in tp_ids : TRUE
         IN RemoveTaskJobs(remove_task_jobs(jp, tp_id), tp_ids \ {tp_id})

\* reload_deltas(): the jobs of the pool become added deltas again.
reload_deltas(jp) ==
    [jp EXCEPT
       !.added = jp.pool @@ @,
       !.pool = IF jp.writes_pool THEN @ ELSE <<>>,
       !.updates_pending = @ \/ DOMAIN jp.pool # {}]

\* deepcopy of a dict of messages: the copies are the data store's objects.
CopyOf(elements) ==
    [id \in DOMAIN elements |-> [elements[id] EXCEPT !.owner = "data_store"]]

\* DataStoreMgr.__init__ (raised: an exception has escaped a handler).
NewMgr ==
    [job_pool |-> EmptyJobPool,
     ancestors |-> <<>>,
     pool_points |-> {},
     max_point |-> NoPoint,
     min_point |-> NoPoint,
     edge_points |-> <<>>,
     state_update_families |-> {},
     updated_state_families |-> {},
     data |-> EmptyStore,
     added |-> EmptyStore,
     updated |-> EmptyStore,
     deltas |-> EmptyDeltas,
     updates_pending |-> FALSE,
     publish_deltas |-> <<>>,
     raised |-> FALSE]

\* ------------------------------------------------- definition generator
PbTaskDef(name, t) ==
    [stamp |-> t, id |-> name, name |-> name,
     depth |-> Len(get_first_parent_ancestors[name]) - 1,
     first_parent |-> get_first_parent_ancestors[name][2]]

\* A family definition whose depth counts the family itself.
PbFamilyDefDeep(name, t) ==
    LET anc == get_first_parent_ancestors[name]
        base == [stamp |-> t, id |-> name, name |-> name,
                 depth |-> Len(anc)]
    IN IF Len(anc) >= 2 THEN SetField(base, "first_parent", anc[2])
       ELSE base

PbFamilyDef(name, t) ==
    LET anc == get_first_parent_ancestors[name]
        base == [stamp |-> t, id |-> name, name |-> name,
                 depth |-> Len(anc) - 1]
    IN IF Len(anc) >= 2 THEN SetField(base, "first_parent", anc[2])
       ELSE base

\* The names n for which the loop finds a key k # n with n among ancestors[k].
FamilyNames ==
    {n \in DOMAIN get_first_parent_ancestors :
        \E k \in DOMAIN get_first_parent_ancestors :
            k # n /\ InSeq(n, get_first_parent_ancestors[k])}

\* The loop over config.get_parent_lists() that wires first-parent children.
RECURSIVE WireChildren(_, _)
WireChildren(families, names) ==
    IF names = <<>> THEN families
    ELSE LET name == Head(names)
             pl == get_parent_lists[name]
             fam == pl[1]
             next ==
                IF pl = <<>> \/ fam \notin DOMAIN families THEN families
                ELSE IF InSeq(name, TaskNames)
                THEN Put(families, fam,
                         AppendField(families[fam], "child_tasks", name))
                ELSE Put(families, fam,
                         AppendField(families[fam], "child_families", name))
         IN WireChildren(next, Tail(names))

\* Sequence of the elements of a set of names, in AllNames order.
NamesIn(S) == SelectSeq(AllNames, LAMBDA n : n \in S)

generate_definition_elements(m, t, broadcasts) ==
    LET tasks == [n \in SeqToSet(TaskNames) |-> PbTaskDef(n, t)]
        fams0 == [n \in FamilyNames |-> PbFamilyDef(n, t)]
        families == WireChildren(fams0, AllNames)
        w0 == [id |-> WORKFLOW, last_updated |-> t, stamp |-> t,
               broadcasts |-> broadcasts] @@ m.added.workflow
        w1 == ExtendField(w0, "tasks", NamesIn(DOMAIN tasks))
        workflow == ExtendField(w1, "families", NamesIn(DOMAIN families))
    IN [m EXCEPT !.added.tasks = tasks @@ m.added.tasks,
                 !.added.families = families @@ m.added.families,
                 !.added.workflow = workflow,
                 !.ancestors = get_first_parent_ancestors]

\* ------------------------------------------------------ ghost generators
\* An id argument that is None.
NoId == <<>>

\* A set as a list, in some fixed order (iteration order of a Python set).
RECURSIVE SetToSeq(_)
SetToSeq(S) ==
    IF S = {} THEN <<>>
    ELSE LET x == CHOOSE y \in S : TRUE
         IN <<x>> \o SetToSeq(S \ {x})

\* The ancestor proxy ids of a namespace at a point (its own name left out).
AncestorIds(m, name, point) ==
    LET names == SelectSeq(m.ancestors[name], LAMBDA a : a # name)
    IN [i \in 1..Len(names) |-> <<point, names[i]>>]

\* The tail of generate_ghost_family: record the child that asked for it.
AddChild(fp_parent, child_fam, child_task) ==
    IF child_fam = NoId
    THEN AppendField(fp_parent, "child_tasks", child_task)
    ELSE IF ~InSeq(child_fam, Get(fp_parent, "child_families", <<>>))
    THEN AppendField(fp_parent, "child_families", child_fam)
    ELSE fp_parent

RECURSIVE generate_ghost_family(_, _, _, _, _)
generate_ghost_family(m, fp_id, child_fam, child_task, t) ==
    LET families == IF DOMAIN m.data.families # {}
                    THEN m.data.families ELSE m.added.families
    IN IF fp_id \in DOMAIN m.data.family_proxies
       THEN LET fp_parent ==
                    Get(m.updated.family_proxies, fp_id, [id |-> fp_id])
            IN [m EXCEPT !.updated.family_proxies =
                    Put(@, fp_id, AddChild(fp_parent, child_fam, child_task))]
       ELSE IF fp_id \in DOMAIN m.added.family_proxies
       THEN [m EXCEPT !.added.family_proxies =
                Put(@, fp_id, AddChild(@[fp_id], child_fam, child_task))]
       ELSE LET point == fp_id[1]
                fam == families[fp_id[2]]
                anc == AncestorIds(m, fam.name, point)
                fp0 == SetField(
                         [stamp |-> t, id |-> fp_id, cycle_point |-> point,
                          name |-> fam.name, family |-> fam.id,
                          depth |-> fam.depth],
                         "ancestors", anc)
                fp_delta == IF anc # <<>>
                            THEN SetField(fp0, "first_parent", anc[1])
                            ELSE fp0
                f_delta == [id |-> fam.id, stamp |-> t,
                            proxies |-> <<fp_id>>]
                m1 == [m EXCEPT
                        !.added.family_proxies = Put(@, fp_id, fp_delta),
                        !.updated.families =
                            Put(@, fam.id,
                                MergeFrom(Get(@, fam.id, [id |-> fam.id]),
                                          f_delta)),
                        !.updated.workflow =
                            AppendField(@, FAMILY_PROXIES, fp_id)]
                m2 == IF "first_parent" \in DOMAIN fp_delta
                      THEN generate_ghost_family(
                               m1, fp_delta.first_parent, fp_id, NoId, t)
                      ELSE m1
            IN [m2 EXCEPT !.added.family_proxies =
                    Put(@, fp_id, AddChild(@[fp_id], child_fam, child_task))]

\* generate_ghost_task with the proxy's task field given the definition id
\* of its first parent instead of its own.
generate_ghost_task_parent_def(m, t_id, tp_id, point_string, t) ==
    IF tp_id \in DOMAIN m.data.task_proxies
       \/ tp_id \in DOMAIN m.added.task_proxies
    THEN m
    ELSE LET taskdef == IF t_id \in DOMAIN m.data.tasks
                        THEN m.data.tasks[t_id] ELSE m.added.tasks[t_id]
             anc == AncestorIds(m, taskdef.name, point_string)
             tproxy == [stamp |-> t, id |-> tp_id, task |-> anc[1][2],
                        cycle_point |-> point_string,
                        depth |-> taskdef.depth, name |-> taskdef.name,
                        ancestors |-> anc, first_parent |-> anc[1]]
             m1 == [m EXCEPT
                     !.added.task_proxies = Put(@, tp_id, tproxy),
                     !.updated.workflow =
                         AppendField(@, TASK_PROXIES, tp_id),
                     !.updated.tasks =
                         Put(@, t_id,
                             AppendField(
                                 Get(@, t_id, [stamp |-> t, id |-> t_id]),
                                 "proxies", tp_id))]
         IN generate_ghost_family(m1, tproxy.first_parent, NoId, tp_id, t)

\* generate_ghost_task without the return for an id that exists.
generate_ghost_task_again(m, t_id, tp_id, point_string, t) ==
    LET taskdef == IF t_id \in DOMAIN m.data.tasks
                   THEN m.data.tasks[t_id] ELSE m.added.tasks[t_id]
        anc == AncestorIds(m, taskdef.name, point_string)
        tproxy == [stamp |-> t, id |-> tp_id, task |-> t_id,
                   cycle_point |-> point_string,
                   depth |-> taskdef.depth, name |-> taskdef.name,
                   ancestors |-> anc, first_parent |-> anc[1]]
        m1 == [m EXCEPT
                !.added.task_proxies = Put(@, tp_id, tproxy),
                !.updated.workflow =
                    AppendField(@, TASK_PROXIES, tp_id),
                !.updated.tasks =
                    Put(@, t_id,
                        AppendField(
                            Get(@, t_id, [stamp |-> t, id |-> t_id]),
                            "proxies", tp_id))]
    IN generate_ghost_family(m1, tproxy.first_parent, NoId, tp_id, t)

generate_ghost_task(m, t_id, tp_id, point_string, t) ==
    IF tp_id \in DOMAIN m.data.task_proxies
       \/ tp_id \in DOMAIN m.added.task_proxies
    THEN m
    ELSE LET taskdef == IF t_id \in DOMAIN m.data.tasks
                        THEN m.data.tasks[t_id] ELSE m.added.tasks[t_id]
             anc == AncestorIds(m, taskdef.name, point_string)
             tproxy == [stamp |-> t, id |-> tp_id, task |-> t_id,
                        cycle_point |-> point_string,
                        depth |-> taskdef.depth, name |-> taskdef.name,
                        ancestors |-> anc, first_parent |-> anc[1]]
             m1 == [m EXCEPT
                     !.added.task_proxies = Put(@, tp_id, tproxy),
                     !.updated.workflow =
                         AppendField(@, TASK_PROXIES, tp_id),
                     !.updated.tasks =
                         Put(@, t_id,
                             AppendField(
                                 Get(@, t_id, [stamp |-> t, id |-> t_id]),
                                 "proxies", tp_id))]
         IN generate_ghost_family(m1, tproxy.first_parent, NoId, tp_id, t)

\* ------------------------------------------------- graph elements engine
\* The body of the loop of generate_graph_elements for one edge; st carries
\* the manager and the new_edges set.
SetDefaultPoint(m, s_point) ==
    [m EXCEPT !.edge_points =
        IF s_point \in DOMAIN @ THEN @ ELSE Put(@, s_point, {})]

\* "Add edge id to node field for resolver reference", when cond holds.
AddEdgeRef(cond, m, tp_id, e_id) ==
    IF cond
    THEN [m EXCEPT !.updated.task_proxies =
            Put(@, tp_id,
                AppendField(Get(@, tp_id, [id |-> tp_id]), "edges", e_id))]
    ELSE m

\* "Add valid source before checking for no target".
GraphSource(m, s_node, s_valid, t) ==
    IF s_valid
    THEN generate_ghost_task(SetDefaultPoint(m, s_node[2]), s_node[1],
                             <<s_node[2], s_node[1]>>, s_node[2], t)
    ELSE m

\* "If target is valid then created it": the target proxy and the edge.
GraphTarget(m, s_node, t_node, s_valid, t) ==
    LET source_id == <<s_node[2], s_node[1]>>
        target_id == <<t_node[2], t_node[1]>>
        e_id == <<s_node, t_node>>
        edge_msg == [id |-> e_id, source |-> source_id, target |-> target_id]
        WithPoint(mp) ==
            [mp EXCEPT !.edge_points =
                Put(@, s_node[2], @[s_node[2]] \cup {t_node[2]})]
        WithEdge(mt) == [mt EXCEPT !.added.edges = Put(@, e_id, edge_msg)]
    IN AddEdgeRef(
         s_valid,
         AddEdgeRef(
           TRUE,
           WithEdge(generate_ghost_task(
                      WithPoint(SetDefaultPoint(m, s_node[2])),
                      t_node[1], target_id, t_node[2], t)),
           target_id, e_id),
         source_id, e_id)

\* The body of the loop of generate_graph_elements for one edge; st carries
\* the manager and the new_edges set.
GraphEdgeStep(st, edge, t) ==
    LET s_node == edge[1]
        t_node == edge[2]
    IN IF s_node = NoNode THEN st
       ELSE
       LET s_valid == is_valid_id(s_node)
           s_pool_point == s_valid /\ s_node[2] \in st.m.pool_points
           t_valid == t_node # NoNode /\ is_valid_id(t_node)
           t_pool_point == t_valid /\ t_node[2] \in st.m.pool_points
       IN IF ~s_pool_point /\ ~t_pool_point THEN st
          ELSE IF ~t_valid
          THEN [st EXCEPT !.m = GraphSource(@, s_node, s_valid, t)]
          ELSE [m |-> GraphTarget(GraphSource(st.m, s_node, s_valid, t),
                                  s_node, t_node, s_valid, t),
                new_edges |-> st.new_edges \cup {<<s_node, t_node>>}]

RECURSIVE GraphEdgeLoop(_, _, _)
GraphEdgeLoop(st, edges, t) ==
    IF edges = <<>> THEN st
    ELSE GraphEdgeLoop(GraphEdgeStep(st, Head(edges), t), Tail(edges), t)

\* generate_graph_elements(point, point)
\* "if new_edges": the workflow's edges take the new edge ids.
ExtendWorkflowEdges(st) ==
    IF st.new_edges # {}
    THEN [st.m EXCEPT !.updated.workflow =
            ExtendField(@, EDGES, SetToSeq(st.new_edges))]
    ELSE st.m

\* generate_graph_elements(point, point)
generate_graph_elements(m, point, t) ==
    IF m.pool_points = {} THEN m
    ELSE ExtendWorkflowEdges(
           GraphEdgeLoop([m |-> m, new_edges |-> {}],
                         get_graph_edges(point), t))

\* The store's jobs map is the job pool's pool dictionary ("Set jobs ref"),
\* so what the job pool does to its pool is seen in the store.
JobsRef(m) == [m EXCEPT !.data.jobs = m.job_pool.pool]

\* "self.schd.job_pool.remove_task_jobs(tp_id)" for the flagged task proxies.
RemoveJobsOf(m, node_ids) ==
    IF node_ids = {} THEN m
    ELSE JobsRef([m EXCEPT !.job_pool = RemoveTaskJobs(@, node_ids)])

\* prune_points without its loop over the family proxies.
prune_points_no_families(m, point_strings) ==
    IF point_strings = {} THEN m
    ELSE LET flow_data == m.data
             node_ids == {tp_id \in DOMAIN flow_data.task_proxies :
                            flow_data.task_proxies[tp_id].cycle_point
                                \in point_strings}
             edge_ids == {e_id \in DOMAIN flow_data.edges :
                            \/ flow_data.edges[e_id].source \in node_ids
                            \/ flow_data.edges[e_id].target \in node_ids}
         IN RemoveJobsOf(
              [m EXCEPT
                 !.deltas.task_proxies.pruned = @ \cup node_ids,
                 !.deltas.edges.pruned = @ \cup edge_ids],
              node_ids)

\* prune_points: flag the store's proxies at the given points, and the
\* store's edges that touch a flagged task proxy, for pruning.
prune_points(m, point_strings) ==
    IF point_strings = {} THEN m
    ELSE LET flow_data == m.data
             node_ids == {tp_id \in DOMAIN flow_data.task_proxies :
                            flow_data.task_proxies[tp_id].cycle_point
                                \in point_strings}
             fam_ids == {fp_id \in DOMAIN flow_data.family_proxies :
                            flow_data.family_proxies[fp_id].cycle_point
                                \in point_strings}
             edge_ids == {e_id \in DOMAIN flow_data.edges :
                            \/ flow_data.edges[e_id].source \in node_ids
                            \/ flow_data.edges[e_id].target \in node_ids}
         IN RemoveJobsOf(
              [m EXCEPT
                 !.deltas.task_proxies.pruned = @ \cup node_ids,
                 !.deltas.family_proxies.pruned = @ \cup fam_ids,
                 !.deltas.edges.pruned = @ \cup edge_ids],
              node_ids)

RECURSIVE GeneratePoints(_, _, _)
GeneratePoints(m, points, t) ==
    IF points = {} THEN m
    ELSE LET p == Min(points)
         IN GeneratePoints(generate_graph_elements(m, p, t),
                           points \ {p}, t)

\* The source points whose entry the prune loop deletes from edge_points.
DroppedSources(edge_points, pool) ==
    {s \in DOMAIN edge_points :
        s \notin pool /\ edge_points[s] \cap pool = {}}

\* A prune loop that collects every target of the entries it keeps.
PrunePointSetAllTargets(edge_points, pool) ==
    LET dropped == DroppedSources(edge_points, pool)
    IN UNION {{s} \cup edge_points[s] : s \in dropped}
       \cup UNION {edge_points[s] : s \in DOMAIN edge_points \ dropped}

\* The points the prune loop of increment_graph_elements collects.
PrunePointSet(edge_points, pool) ==
    LET dropped == DroppedSources(edge_points, pool)
    IN UNION {{s} \cup edge_points[s] : s \in dropped}
       \cup UNION {edge_points[s] \ pool : s \in DOMAIN edge_points \ dropped}

\* A prune loop that leaves the targets outside the pool in edge_points.
PruneStepKeepTargets(m, new_points) ==
    LET ep == m.edge_points
        pool == m.pool_points
        prune_set == PrunePointSet(ep, pool)
        Pending(mp) ==
            IF new_points # {} \/ prune_set # {}
            THEN [mp EXCEPT !.updates_pending = TRUE] ELSE mp
    IN Pending(
         prune_points(
           [m EXCEPT !.edge_points =
               [s \in DOMAIN ep \ DroppedSources(ep, pool) |-> ep[s]]],
           prune_set))

\* The prune loop of increment_graph_elements and what follows it.
PruneStep(m, new_points) ==
    LET ep == m.edge_points
        pool == m.pool_points
        prune_set == PrunePointSet(ep, pool)
        Pending(mp) ==
            IF new_points # {} \/ prune_set # {}
            THEN [mp EXCEPT !.updates_pending = TRUE] ELSE mp
    IN Pending(
         prune_points(
           [m EXCEPT !.edge_points =
               [s \in DOMAIN ep \ DroppedSources(ep, pool) |->
                   ep[s] \cap pool]],
           prune_set))

\* "Increment edges": the new points are generated, min and max are set.
GenerateNewPoints(m, new_points, t) ==
    IF new_points # {}
    THEN [GeneratePoints(m, new_points, t) EXCEPT
            !.min_point = Min(m.pool_points),
            !.max_point = Max(m.pool_points)]
    ELSE m

increment_graph_elements(m, schd_pool, t) ==
    IF schd_pool = {} THEN [m EXCEPT !.pool_points = schd_pool]
    ELSE PruneStep(
           GenerateNewPoints([m EXCEPT !.pool_points = schd_pool],
                             schd_pool \ m.pool_points, t),
           schd_pool \ m.pool_points)

\* ---------------------------------------------------- dynamic update path
\* A variant that does not flag the first parent for a state update.
TaskProxyStepUnflagged(m, itask, t) ==
    LET tp_id == <<itask.point, itask.name>>
    IN IF tp_id \notin DOMAIN m.data.task_proxies
          /\ tp_id \notin DOMAIN m.added.task_proxies
       THEN m
       ELSE [m EXCEPT
               !.updated.task_proxies =
                   Put(@, tp_id,
                       SetField(SetField(SetField(
                           Get(m.updated.task_proxies, tp_id, [id |-> tp_id]),
                           "stamp", t),
                           "state", itask.status),
                           "is_held", itask.is_held))]

\* The job ids the job pool holds for the task proxy that the store's task
\* proxy does not list yet.
NewJobs(m, tp_id) ==
    SelectSeq(Get(m.job_pool.task_jobs, tp_id, <<>>),
              LAMBDA j_id :
                  ~InSeq(j_id, Get(Get(m.data.task_proxies, tp_id, EmptyMsg),
                                   "jobs", <<>>)))

\* A live task of the scheduler pool: [name, point, status, is_held].
TaskProxyStep(m, itask, t) ==
    LET tp_id == <<itask.point, itask.name>>
        task_proxies == m.data.task_proxies
    IN IF tp_id \notin DOMAIN task_proxies
          /\ tp_id \notin DOMAIN m.added.task_proxies
       THEN m
       ELSE
       LET tp_delta0 == Get(m.updated.task_proxies, tp_id, [id |-> tp_id])
           tp_delta == SetField(SetField(SetField(SetField(tp_delta0,
                          "stamp", t),
                          "state", itask.status),
                          "is_held", itask.is_held),
                          "jobs", NewJobs(m, tp_id))
           first_parent == IF tp_id \in DOMAIN task_proxies
                           THEN task_proxies[tp_id].first_parent
                           ELSE m.added.task_proxies[tp_id].first_parent
       IN [m EXCEPT
             !.updated.task_proxies = Put(@, tp_id, tp_delta),
             !.state_update_families = @ \cup {first_parent}]

\* A variant that stops at the first task whose proxy is unknown.
RECURSIVE TaskProxyLoopBreak(_, _, _)
TaskProxyLoopBreak(m, tasks, t) ==
    IF tasks = <<>> THEN m
    ELSE IF <<Head(tasks).point, Head(tasks).name>>
               \notin DOMAIN m.data.task_proxies
                        \cup DOMAIN m.added.task_proxies
    THEN m
    ELSE TaskProxyLoopBreak(TaskProxyStep(m, Head(tasks), t),
                            Tail(tasks), t)

RECURSIVE TaskProxyLoop(_, _, _)
TaskProxyLoop(m, tasks, t) ==
    IF tasks = <<>> THEN m
    ELSE TaskProxyLoop(TaskProxyStep(m, Head(tasks), t), Tail(tasks), t)

update_task_proxies(m, updated_tasks, t) ==
    IF updated_tasks = <<>> THEN m
    ELSE TaskProxyLoop(m, updated_tasks, t)

\* ----------------------------------------------------------- family rollup
\* Task statuses of the model, in the priority order of extract_group_state.
StatusOrder == <<"running", "waiting">>

NoState == ""

\* extract_group_state: the first status of the priority order among the
\* child states, None (unset) when there is none.
extract_group_state(child_states) ==
    LET found == SelectSeq(StatusOrder, LAMBDA st : st \in child_states)
    IN IF found = <<>> THEN NoState ELSE Head(found)

\* Counter + Counter
CounterAdd(a, b) ==
    [k \in DOMAIN a \cup DOMAIN b |-> Get(a, k, 0) + Get(b, k, 0)]

\* list(counter.keys())
CounterKeys(c) == SelectSeq(StatusOrder, LAMBDA st : st \in DOMAIN c)

\* The loop over fam_node.child_families: acc is [held, counter].
RECURSIVE ChildFamilyTotals(_, _, _)
ChildFamilyTotals(m, child_ids, acc) ==
    IF child_ids = <<>> THEN acc
    ELSE
    LET child_id == Head(child_ids)
        fp_updated == m.updated.family_proxies
        fp_data == m.data.family_proxies
        found == child_id \in DOMAIN fp_updated \cup DOMAIN fp_data
        child_node == IF child_id \in DOMAIN fp_updated
                      THEN fp_updated[child_id] ELSE fp_data[child_id]
        next == IF found
                THEN [held |-> acc.held + Get(child_node, "is_held_total", 0),
                      counter |-> CounterAdd(acc.counter,
                                     Get(child_node, "state_totals", <<>>))]
                ELSE acc
    IN ChildFamilyTotals(m, Tail(child_ids), next)

\* The loop over fam_node.child_tasks: acc is [held, states].
RECURSIVE ChildTaskStates(_, _, _)
ChildTaskStates(m, tp_ids, acc) ==
    IF tp_ids = <<>> THEN acc
    ELSE
    LET tp_id == Head(tp_ids)
        tp_updated == m.updated.task_proxies
        tp_data == m.data.task_proxies
        found == tp_id \in DOMAIN tp_updated \cup DOMAIN tp_data
        tp_node == IF tp_id \in DOMAIN tp_updated
                   THEN tp_updated[tp_id] ELSE tp_data[tp_id]
        next == IF found
                THEN [held |-> acc.held
                                + (IF Get(tp_node, "is_held", FALSE)
                                   THEN 1 ELSE 0),
                      states |-> IF Get(tp_node, "state", NoState) # NoState
                                 THEN Append(acc.states, tp_node.state)
                                 ELSE acc.states]
                ELSE acc
    IN ChildTaskStates(m, Tail(tp_ids), next)

\* Counter(task_states)
RECURSIVE CounterOf(_)
CounterOf(states) ==
    IF states = <<>> THEN <<>>
    ELSE CounterAdd(CounterOf(Tail(states)), Head(states) :> 1)

\* The delta element _family_ascent_point_update creates for a flagged family.
FamilyDelta(m, fp_id, fam_node, t) ==
    LET fams == ChildFamilyTotals(m, Get(fam_node, "child_families", <<>>),
                                  [held |-> 0, counter |-> <<>>])
        tsks == ChildTaskStates(m, Get(fam_node, "child_tasks", <<>>),
                                [held |-> fams.held, states |-> <<>>])
        state_counter == CounterAdd(fams.counter, CounterOf(tsks.states))
        is_held_total == tsks.held
        group == extract_group_state(DOMAIN state_counter)
        d0 == [id |-> fp_id, stamp |-> t,
               is_held |-> (is_held_total > 0),
               is_held_total |-> is_held_total]
        d1 == IF group # NoState THEN SetField(d0, "state", group) ELSE d0
        d2 == SetField(d1, "states", CounterKeys(state_counter))
    IN SetField(d2, "state_totals", state_counter)

RECURSIVE _family_ascent_point_update(_, _, _)
RECURSIVE AscendChildren(_, _, _)

AscendChildren(m, child_ids, t) ==
    IF child_ids = <<>> \/ m.raised THEN m
    ELSE AscendChildren(_family_ascent_point_update(m, Head(child_ids), t),
                        Tail(child_ids), t)

\* An ascent that leaves out "self.state_update_families.remove(fp_id)".
_family_ascent_keeps_flag(m, fp_id, t) ==
    LET fp_added == m.added.family_proxies
        fp_data == m.data.family_proxies
    IN IF fp_id \notin DOMAIN fp_data \cup DOMAIN fp_added
       THEN [m EXCEPT !.raised = TRUE]    \* KeyError
       ELSE
       LET fam_node == IF fp_id \in DOMAIN fp_data
                       THEN fp_data[fp_id] ELSE fp_added[fp_id]
           child_fam_nodes ==
               SelectSeq(Get(fam_node, "child_families", <<>>),
                         LAMBDA n_id : n_id \notin m.updated_state_families)
           m1 == AscendChildren(m, child_fam_nodes, t)
       IN IF m1.raised \/ fp_id \notin m1.state_update_families THEN m1
          ELSE
          LET fp_delta == FamilyDelta(m1, fp_id, fam_node, t)
              flagged == IF "first_parent" \in DOMAIN fam_node
                         THEN m1.state_update_families
                                \cup {fam_node.first_parent}
                         ELSE m1.state_update_families
          IN [m1 EXCEPT
                !.updated.family_proxies =
                    Put(@, fp_id,
                        MergeFrom(Get(@, fp_id, EmptyMsg), fp_delta)),
                !.updated_state_families = @ \cup {fp_id},
                !.state_update_families = flagged]

_family_ascent_point_update(m, fp_id, t) ==
    LET fp_added == m.added.family_proxies
        fp_data == m.data.family_proxies
    IN IF fp_id \notin DOMAIN fp_data \cup DOMAIN fp_added
       THEN [m EXCEPT !.raised = TRUE]    \* KeyError
       ELSE
       LET fam_node == IF fp_id \in DOMAIN fp_data
                       THEN fp_data[fp_id] ELSE fp_added[fp_id]
           child_fam_nodes ==
               SelectSeq(Get(fam_node, "child_families", <<>>),
                         LAMBDA n_id : n_id \notin m.updated_state_families)
           m1 == AscendChildren(m, child_fam_nodes, t)
       IN IF m1.raised \/ fp_id \notin m1.state_update_families THEN m1
          ELSE
          LET fp_delta == FamilyDelta(m1, fp_id, fam_node, t)
              flagged == IF "first_parent" \in DOMAIN fam_node
                         THEN m1.state_update_families
                                \cup {fam_node.first_parent}
                         ELSE m1.state_update_families
          IN [m1 EXCEPT
                !.updated.family_proxies =
                    Put(@, fp_id,
                        MergeFrom(Get(@, fp_id, EmptyMsg), fp_delta)),
                !.updated_state_families = @ \cup {fp_id},
                !.state_update_families = flagged \ {fp_id}]

\* The id the driver's "for fam_id in self.state_update_families: ... break"
\* takes (the first of the set's iteration order).
PickFamily(S) == CHOOSE fam_id \in S : TRUE

RECURSIVE FamilyDriver(_, _)
FamilyDriver(m, t) ==
    IF m.state_update_families = {} \/ m.raised THEN m
    ELSE FamilyDriver(
            _family_ascent_point_update(
                m, PickFamily(m.state_update_families), t), t)

update_family_proxies(m, t) ==
    FamilyDriver([m EXCEPT !.updated_state_families = {}], t)

\* --------------------------------------------------------------- workflow
\* data.get(root_id) of update_workflow: data is the dict of the kinds, so
\* an element id is never one of its keys and the lookup returns None.
KindDictHas(data, root_id) == FALSE

RootIds(m) ==
    {n \in DOMAIN m.data.family_proxies :
        m.data.family_proxies[n].name = "root"}
    \cup {n \in DOMAIN m.added.family_proxies :
        m.added.family_proxies[n].name = "root"}

RECURSIVE RootTotals(_, _, _)
RootTotals(m, root_ids, acc) ==
    IF root_ids = {} THEN acc
    ELSE
    LET root_id == CHOOSE r \in root_ids : TRUE
        in_updated == root_id \in DOMAIN m.updated.family_proxies
        found == in_updated \/ KindDictHas(m.data, root_id)
        root_node == IF in_updated THEN m.updated.family_proxies[root_id]
                     ELSE EmptyMsg
        next == IF found /\ Get(root_node, "state", NoState) # NoState
                THEN [held |-> acc.held + Get(root_node, "is_held_total", 0),
                      counter |-> CounterAdd(acc.counter,
                                     Get(root_node, "state_totals", <<>>))]
                ELSE acc
    IN RootTotals(m, root_ids \ {root_id}, next)

update_workflow(m, t) ==
    LET tot == RootTotals(m, RootIds(m), [held |-> 0, counter |-> <<>>])
        w0 == [id |-> WORKFLOW, last_updated |-> t, stamp |-> t]
              @@ m.updated.workflow
        w1 == SetField(w0, "states", CounterKeys(tot.counter))
        w2 == SetField(w1, "state_totals",
                       tot.counter @@ Get(w1, "state_totals", <<>>))
        w3 == SetField(w2, "is_held_total", tot.held)
        w4 == IF m.min_point # NoPoint
              THEN SetField(w3, "oldest_cycle_point", m.min_point) ELSE w3
        w5 == IF m.max_point # NoPoint
              THEN SetField(w4, "newest_cycle_point", m.max_point) ELSE w4
    IN [m EXCEPT !.updated.workflow = w5]

\* ------------------------------------------------------- delta applicator
\* delta.ListFields() is non-empty
DeltaIsSet(delta) ==
    \/ DOMAIN delta.added # {}
    \/ DOMAIN delta.updated # {}
    \/ delta.pruned # {}
    \/ delta.time # NoTime
    \/ delta.reloaded
    \/ delta.checksum # NoChecksum

\* Clear the clear-before-merge fields the element carries, then merge.
ClearAndMerge(key, target, element) ==
    LET kept == [f \in DOMAIN target \ (CLEAR_FIELD_MAP[key]
                                         \cap ListFields(element)) |->
                    target[f]]
    IN MergeFrom(kept, element)

\* A variant that creates the element when the id is missing from the store.
ApplyUpdatedCreate(key, store, updated, ids) ==
    [id \in DOMAIN store \cup ids |->
        IF id \notin ids THEN store[id]
        ELSE IF id \in DOMAIN store
        THEN ClearAndMerge(key, store[id], updated[id])
        ELSE updated[id]]

\* "Merge in updated fields" for a kind held as a dict; an element whose id
\* is missing from the store is skipped (KeyError caught).
RECURSIVE ApplyUpdated(_, _, _, _)
ApplyUpdated(key, store, updated, ids) ==
    IF ids = {} THEN store
    ELSE LET id == CHOOSE x \in ids : TRUE
             next == IF id \in DOMAIN store
                     THEN Put(store, id,
                              ClearAndMerge(key, store[id], updated[id]))
                     ELSE store
         IN ApplyUpdated(key, next, updated, ids \ {id})

\* The pruning of one id that deletes the element and leaves its id in the
\* lists that refer to it.
PruneOneKeepRefs(key, r, del_id) ==
    LET data == r.data
    IN IF r.raised \/ del_id \notin DOMAIN data[key] THEN r
       ELSE [r EXCEPT !.data =
               [data EXCEPT ![key] = [x \in DOMAIN @ \ {del_id} |-> @[x]]]]

\* "Prune data elements" for one id; r is [data, raised].
PruneOne(key, r, del_id) ==
    LET data == r.data
    IN IF r.raised \/ del_id \notin DOMAIN data[key] THEN r
       ELSE
       LET def_kind == IF key = TASK_PROXIES THEN TASKS ELSE FAMILIES
           def_id == IF key = TASK_PROXIES THEN data[key][del_id].task
                     ELSE data[key][del_id].family
           dropped == [data EXCEPT ![key] =
                         [x \in DOMAIN @ \ {del_id} |-> @[x]]]
       IN IF key \in {TASK_PROXIES, FAMILY_PROXIES}
          THEN IF \/ def_id \notin DOMAIN data[def_kind]
                  \/ ~InSeq(del_id, Get(data[def_kind][def_id],
                                        "proxies", <<>>))
                  \/ ~InSeq(del_id, Get(data.workflow, key, <<>>))
               THEN [r EXCEPT !.raised = TRUE]   \* KeyError, ValueError
               ELSE [r EXCEPT !.data =
                       [dropped EXCEPT
                          ![def_kind] =
                              Put(@, def_id,
                                  SetField(@[def_id], "proxies",
                                      RemoveFirst(@[def_id].proxies,
                                                  del_id))),
                          !.workflow =
                              SetField(@, key,
                                       RemoveFirst(@[key], del_id))]]
          ELSE IF key = EDGES
          THEN IF ~InSeq(del_id, Get(data.workflow, EDGES, <<>>))
               THEN [r EXCEPT !.raised = TRUE]   \* ValueError
               ELSE [r EXCEPT !.data =
                       [dropped EXCEPT !.workflow =
                           SetField(@, EDGES,
                                    RemoveFirst(@[EDGES], del_id))]]
          ELSE [r EXCEPT !.data = dropped]

RECURSIVE ApplyPruned(_, _, _)
ApplyPruned(key, r, ids) ==
    IF ids = {} THEN r
    ELSE LET id == CHOOSE x \in ids : TRUE
         IN ApplyPruned(key, PruneOne(key, r, id), ids \ {id})

\* apply_delta(key, delta, data); the result is [data, raised].
apply_delta(key, delta, data) ==
    IF key = WORKFLOW
    THEN LET d1 == IF DOMAIN delta.added # {}
                   THEN [data EXCEPT !.workflow = delta.added] ELSE data
             d2 == [d1 EXCEPT !.workflow =
                      ClearAndMerge(WORKFLOW, @, delta.updated)]
         IN [data |-> d2, raised |-> FALSE]
    ELSE LET d1 == [data EXCEPT ![key] = delta.added @@ @]
             d2 == [d1 EXCEPT ![key] =
                      ApplyUpdated(key, @, delta.updated,
                                   DOMAIN delta.updated)]
         IN ApplyPruned(key, [data |-> d2, raised |-> FALSE], delta.pruned)

\* ---------------------------------------------------------- delta finalizer
\* "Gather cumulative update element": the buckets go into the deltas.
GatherDeltas(m) ==
    [k \in DOMAIN m.deltas |->
        [m.deltas[k] EXCEPT
            !.added = IF k = WORKFLOW
                      THEN (IF ListFields(m.added.workflow) # {}
                            THEN m.added.workflow ELSE @)
                      ELSE m.added[k] @@ @,
            !.updated = IF k = WORKFLOW
                        THEN (IF ListFields(m.updated.workflow) # {}
                              THEN m.updated.workflow ELSE @)
                        ELSE m.updated[k] @@ @]]

\* The loop "Apply deltas to local data-store"; st is [data, deltas, raised].
RECURSIVE ApplyLoop(_, _, _)
ApplyLoop(st, kinds, reloaded) ==
    IF kinds = <<>> \/ st.raised THEN st
    ELSE
    LET key == Head(kinds)
        delta == st.deltas[key]
    IN IF ~DeltaIsSet(delta) THEN ApplyLoop(st, Tail(kinds), reloaded)
       ELSE LET d == [delta EXCEPT !.reloaded = reloaded]
                r == apply_delta(key, d, st.data)
            IN ApplyLoop([data |-> r.data,
                          deltas |-> [st.deltas EXCEPT ![key] = d],
                          raised |-> r.raised],
                         Tail(kinds), reloaded)

\* apply_delta puts the elements of delta.added themselves into the store
\* (data[key].update({e.id: e for e in delta.added})), so what is merged
\* into or removed from such a store element afterwards is also seen in the
\* deltas message that holds it.
AliasAdded(deltas, data) ==
    [k \in DOMAIN deltas |->
        IF k = WORKFLOW THEN deltas[k]
        ELSE [deltas[k] EXCEPT !.added =
                [id \in DOMAIN @ |->
                    IF id \in DOMAIN data[k] THEN data[k][id] ELSE @[id]]]]

\* Strings are kept as the sequences of their character codes.
NameChars(name) ==
    CASE name = "A" -> <<65>>
      [] name = "B" -> <<66>>
      [] name = "C" -> <<67>>
      [] name = "F" -> <<70>>
      [] OTHER -> <<114, 111, 111, 116>>

Digit(n) == <<48 + n>>

\* f'{self.workflow_id}{ID_DELIM}...': the id strings of the kinds.
IdString(key, id) ==
    CASE key \in {TASKS, FAMILIES} -> <<119, 124>> \o NameChars(id)
      [] key \in {TASK_PROXIES, FAMILY_PROXIES} ->
            <<119, 124>> \o Digit(id[1]) \o <<124>> \o NameChars(id[2])
      [] key = EDGES ->
            <<119, 124>> \o NameChars(id[1][1]) \o <<46>> \o Digit(id[1][2])
            \o <<124>> \o NameChars(id[2][1]) \o <<46>> \o Digit(id[2][2])
      [] OTHER ->
            <<119, 124>> \o Digit(id[1][1]) \o <<124>> \o NameChars(id[1][2])
            \o <<124>> \o Digit(id[2])

\* f'{id}@{update_time}'
StampString(key, id, t) == IdString(key, id) \o <<64>> \o Digit(t)

\* a <= b for strings
RECURSIVE StrLeq(_, _)
StrLeq(a, b) ==
    IF a = <<>> THEN TRUE
    ELSE IF b = <<>> THEN FALSE
    ELSE IF Head(a) # Head(b) THEN Head(a) < Head(b)
    ELSE StrLeq(Tail(a), Tail(b))

RECURSIVE InsertSorted(_, _)
InsertSorted(x, s) ==
    IF s = <<>> THEN <<x>>
    ELSE IF StrLeq(x, Head(s)) THEN <<x>> \o s
    ELSE <<Head(s)>> \o InsertSorted(x, Tail(s))

RECURSIVE sorted(_)
sorted(strings) ==
    IF strings = <<>> THEN <<>>
    ELSE InsertSorted(Head(strings), sorted(Tail(strings)))

\* ''.join(strings)
RECURSIVE join(_)
join(strings) ==
    IF strings = <<>> THEN <<>> ELSE Head(strings) \o join(Tail(strings))

\* zlib.adler32 from the running sums a and b; the 32-bit word b * 65536 + a
\* is kept as its two halves <<b, a>>.
RECURSIVE Adler(_, _, _)
Adler(bytes, a, b) ==
    IF bytes = <<>> THEN <<b, a>>
    ELSE Adler(Tail(bytes), (a + Head(bytes)) % 65521,
               (b + ((a + Head(bytes)) % 65521)) % 65521)

adler32(bytes) == Adler(bytes, 1, 0)

\* A variant that does not sort the strings.
generate_checksum_unsorted(in_strings) == adler32(join(in_strings))

\* generate_checksum(in_strings)
generate_checksum(in_strings) == adler32(join(sorted(in_strings)))

\* [getattr(e, s_att) for e in data[key].values()] for the ids in the order
\* the dictionary holds them: the ids of edges, the stamps of other kinds.
RECURSIVE AttrStrings(_, _, _)
AttrStrings(key, slice, ids) ==
    IF ids = <<>> THEN <<>>
    ELSE <<IF key = EDGES THEN IdString(key, Head(ids))
           ELSE StampString(key, Head(ids),
                            Get(slice[Head(ids)], "stamp", NoTime))>>
         \o AttrStrings(key, slice, Tail(ids))

SliceStrings(key, slice) == AttrStrings(key, slice, SetToSeq(DOMAIN slice))

\* "Construct checksum on deltas for export"
StampDeltas(deltas, data, t) ==
    [k \in DOMAIN deltas |->
        IF ~DeltaIsSet(deltas[k]) THEN deltas[k]
        ELSE IF k = WORKFLOW THEN [deltas[k] EXCEPT !.time = t]
        ELSE [deltas[k] EXCEPT
                !.time = t,
                !.checksum = generate_checksum(SliceStrings(k, data[k]))]]

\* "Copy in job deltas": the job pool's deltas message and copies of its
\* added and updated jobs; the workflow takes the ids of the added jobs.
CopyInJobs(m) ==
    [m EXCEPT
       !.deltas.jobs = m.job_pool.deltas,
       !.added.jobs = CopyOf(m.job_pool.added),
       !.updated.jobs = CopyOf(m.job_pool.updated),
       !.updated.workflow =
           IF DOMAIN m.job_pool.added # {}
           THEN ExtendField(@, JOBS, SetToSeq(DOMAIN m.job_pool.added))
           ELSE @]

\* "Clear job pool changes after their application"; the pool dictionary
\* of the job pool is the store's jobs map the deltas were applied to.
ClearJobPool(jp, jobs) ==
    [jp EXCEPT !.pool = jobs,
               !.deltas = EmptyDelta,
               !.added = <<>>,
               !.updated = <<>>]

\* apply_deltas once the job deltas are copied in.
ApplyGathered(m, reloaded, t) ==
    LET st == ApplyLoop([data |-> m.data, deltas |-> GatherDeltas(m),
                         raised |-> FALSE],
                        KindOrder, reloaded)
    IN IF st.raised
       THEN [m EXCEPT !.data = st.data,
                      !.deltas = AliasAdded(st.deltas, st.data),
                      !.job_pool.pool = st.data.jobs,
                      !.raised = TRUE]
       ELSE [m EXCEPT !.data = st.data,
                      !.deltas = StampDeltas(AliasAdded(st.deltas, st.data),
                                             st.data, t),
                      !.job_pool = ClearJobPool(@, st.data.jobs)]

apply_deltas(m, reloaded, t) == ApplyGathered(CopyInJobs(m), reloaded, t)

ALL_DELTAS == "all"

\* get_publish_deltas collects into result the delta messages themselves: an
\* entry <<key, delta>> holds self.deltas[key], kept here as a reference to
\* that message, for every delta that is set; all_deltas receives a copy
\* (CopyFrom) of each of them and is appended last.
DeltaRef(key) == [ref |-> key]

IsRef(x) == DOMAIN x = {"ref"}

RECURSIVE PublishEntries(_, _)
PublishEntries(deltas, kinds) ==
    IF kinds = <<>> THEN <<>>
    ELSE (IF DeltaIsSet(deltas[Head(kinds)])
          THEN << <<Head(kinds), DeltaRef(Head(kinds))>> >> ELSE <<>>)
         \o PublishEntries(deltas, Tail(kinds))

\* A variant that puts the all-deltas entry first.
PublishResultAllFirst(m) ==
    << <<ALL_DELTAS,
         [k \in {x \in DOMAIN m.deltas : DeltaIsSet(m.deltas[x])}
             |-> m.deltas[k]]>> >>
    \o PublishEntries(m.deltas, KindOrder)

PublishResult(m) ==
    LET all_deltas == [k \in {x \in DOMAIN m.deltas : DeltaIsSet(m.deltas[x])}
                         |-> m.deltas[k]]
    IN Append(PublishEntries(m.deltas, KindOrder),
              <<ALL_DELTAS, all_deltas>>)

\* deepcopy(result): every referenced message is replaced by a copy of what
\* it holds when the copy is taken; reading a bundle resolves what is left.
deepcopy(result, deltas) ==
    [i \in DOMAIN result |->
        IF IsRef(result[i][2])
        THEN <<result[i][1], deltas[result[i][2].ref]>>
        ELSE result[i]]

\* A variant that returns result itself, without the copy.
get_publish_deltas_no_copy(m) == PublishResult(m)

get_publish_deltas(m) == deepcopy(PublishResult(m), m.deltas)

\* A variant that leaves the updated buckets as they are.
clear_deltas_keep_updated(m) ==
    [m EXCEPT !.deltas = EmptyDeltas,
              !.added = EmptyStore]

clear_deltas(m) ==
    [m EXCEPT !.deltas = EmptyDeltas,
              !.added = EmptyStore,
              !.updated = EmptyStore]

\* ---------------------------------------------------------------- handlers
\* update_dynamic_elements; nodes is [none, tasks]: updated_nodes is None
\* (then tasks is what schd.pool.get_all_tasks() returns) or the list tasks.
\* "self.updates_pending = True", unless update_family_proxies raised.
MarkPending(m) ==
    IF m.raised THEN m ELSE [m EXCEPT !.updates_pending = TRUE]

\* A variant without the return for an empty updated_nodes list.
update_dynamic_elements_always(m, nodes, t) ==
    MarkPending(
      update_family_proxies(update_task_proxies(m, nodes.tasks, t), t))

\* A variant that runs the family rollup before the task transcription.
update_dynamic_elements_rollup_first(m, nodes, t) ==
    IF ~nodes.none /\ nodes.tasks = <<>> THEN m
    ELSE MarkPending(
           update_task_proxies(update_family_proxies(m, t), nodes.tasks, t))

update_dynamic_elements(m, nodes, t) ==
    IF ~nodes.none /\ nodes.tasks = <<>> THEN m
    ELSE MarkPending(
           update_family_proxies(update_task_proxies(m, nodes.tasks, t), t))

\* Publish and clear: the tail of both handlers.
PublishClear(m) ==
    IF m.raised THEN m
    ELSE clear_deltas([m EXCEPT !.publish_deltas = get_publish_deltas(m)])

\* "self.updates_pending = False" after the deltas are applied.
ClearPending(m) ==
    IF m.raised THEN m
    ELSE [m EXCEPT !.updates_pending = FALSE,
                   !.job_pool.updates_pending = FALSE]

\* The accumulation window of initiate_data_model: everything before
\* apply_deltas.
AccumulateInitial(m, schd_pool, broadcasts, t) ==
    update_workflow(
      JobsRef(
        increment_graph_elements(
          generate_definition_elements(m, t, broadcasts), schd_pool, t)),
      t)

\* "Update workflow statuses and totals if needed"
Summarise(m, t) ==
    IF m.raised \/ ~m.updates_pending THEN m ELSE update_workflow(m, t)

\* The accumulation window of update_data_structure: everything before
\* apply_deltas.
AccumulateUpdate(m, schd_pool, nodes, t) ==
    Summarise(
      update_dynamic_elements(
        increment_graph_elements(m, schd_pool, t), nodes, t),
      t)

\* "Apply current deltas": always in initiate_data_model, when updates are
\* pending in update_data_structure.
ApplyStep(m, always, reloaded, t) ==
    IF m.raised
       \/ ~(always \/ m.updates_pending \/ m.job_pool.updates_pending)
    THEN m
    ELSE ClearPending(apply_deltas(m, reloaded, t))

\* A tidy that drops the jobs of every task proxy the job pool knows.
TidyJobsAll(m) ==
    [m EXCEPT
       !.job_pool = reload_deltas(
                       RemoveTaskJobs(@, DOMAIN m.job_pool.task_jobs))]

\* "Tidy and reassign task jobs after reload": the job pool drops the jobs
\* of the task proxies that were not generated anew, every new task proxy
\* takes the job ids the job pool holds for it, and the job pool reloads
\* its deltas.
TidyJobs(m) ==
    LET new_tasks == DOMAIN m.added.task_proxies
        job_tasks == DOMAIN m.job_pool.task_jobs
        tidied == RemoveTaskJobs(m.job_pool, job_tasks \ new_tasks)
    IN [m EXCEPT
          !.added.task_proxies =
              [tp_id \in DOMAIN @ |->
                  SetField(@[tp_id], "jobs",
                           Get(tidied.task_jobs, tp_id, <<>>))],
          !.job_pool = reload_deltas(tidied)]

\* The accumulation window of initiate_data_model(reloaded=True) from the
\* manager the reset has left.
AccumulateReset(m, schd_pool, broadcasts, t) ==
    update_workflow(
      JobsRef(
        TidyJobs(
          increment_graph_elements(
            generate_definition_elements(m, t, broadcasts), schd_pool, t))),
      t)

\* A reload that skips the reset of the manager.
AccumulateReloadNoReset(m, schd_pool, broadcasts, t) ==
    AccumulateReset(m, schd_pool, broadcasts, t)

\* The accumulation window of initiate_data_model(reloaded=True):
\* "Reset attributes/data-store on reload" (self.__init__(self.schd), which
\* keeps the scheduler and so its job pool), then as at start, with the
\* jobs tidied.
AccumulateReload(m, schd_pool, broadcasts, t) ==
    AccumulateReset([NewMgr EXCEPT !.job_pool = m.job_pool],
                    schd_pool, broadcasts, t)

\* initiate_data_model(reloaded=True)
reload_data_model(m, schd_pool, broadcasts, t) ==
    PublishClear(
      ApplyStep(AccumulateReload(m, schd_pool, broadcasts, t),
                TRUE, TRUE, t))

initiate_data_model(m, schd_pool, broadcasts, t) ==
    PublishClear(
      ApplyStep(AccumulateInitial(m, schd_pool, broadcasts, t),
                TRUE, FALSE, t))

update_data_structure(m, schd_pool, nodes, t) ==
    PublishClear(
      ApplyStep(AccumulateUpdate(m, schd_pool, nodes, t), FALSE, FALSE, t))

\* A remote mirror applying a published bundle with apply_delta, kind by kind.
RECURSIVE ApplyBundle(_, _)
ApplyBundle(store, bundle) ==
    IF bundle = <<>> THEN store
    ELSE LET entry == Head(bundle)
         IN IF entry[1] = ALL_DELTAS THEN ApplyBundle(store, Tail(bundle))
            ELSE ApplyBundle(apply_delta(entry[1], entry[2], store).data,
                             Tail(bundle))

\* ------------------------------------------------------------ environment
\* The scheduler pool: a window of at most MaxPoolWidth consecutive points.
Pools ==
    {a..b : a \in Points, b \in Points} \cap
    {P \in SUBSET Points : Cardinality(P) <= MaxPoolWidth}

\* What the scheduler reports of a live task.
TaskReports ==
    {[status |-> "running", is_held |-> FALSE],
     [status |-> "waiting", is_held |-> TRUE]}

LiveTasks(pool) ==
    {[name |-> n, point |-> p, status |-> r.status, is_held |-> r.is_held] :
        n \in SeqToSet(TaskNames), p \in pool, r \in TaskReports}

\* The updated_nodes arguments: no task, one task of the pool, or None when
\* the pool holds no task.
NodeChoices(pool) ==
    {[none |-> FALSE, tasks |-> <<>>]}
    \cup {[none |-> FALSE, tasks |-> <<it>>] : it \in LiveTasks(pool)}
    \cup (IF pool = {} THEN {[none |-> TRUE, tasks |-> <<>>]} ELSE {})

\* ------------------------------------------------------------------ state
VARIABLES
    ancestors, pool_points, max_point, min_point, edge_points,
    state_update_families, updated_state_families,
    data, added, updated, deltas, updates_pending, publish_deltas,
    raised,      \* an exception escaped the last handler
    clock,       \* the wall clock, one tick per handler call
    started,     \* initiate_data_model has run
    mirror,      \* a mirror in sync before the last call, bundle applied
    op,          \* the last handler call and its arguments
    before,      \* the manager when the last handler was called
    window,      \* the manager of the last call just before apply_deltas
    applied,     \* the manager of the last call just before get_publish_deltas
    job_pool     \* schd.job_pool

vars ==
    <<ancestors, pool_points, max_point, min_point, edge_points,
      state_update_families, updated_state_families,
      data, added, updated, deltas, updates_pending, publish_deltas,
      raised, clock, started, mirror, op, before, window, applied, config,
      job_pool>>

Self ==
    [job_pool |-> job_pool,
     ancestors |-> ancestors, pool_points |-> pool_points,
     max_point |-> max_point, min_point |-> min_point,
     edge_points |-> edge_points,
     state_update_families |-> state_update_families,
     updated_state_families |-> updated_state_families,
     data |-> data, added |-> added, updated |-> updated,
     deltas |-> deltas, updates_pending |-> updates_pending,
     publish_deltas |-> publish_deltas, raised |-> raised]

Install(m) ==
    /\ ancestors' = m.ancestors
    /\ pool_points' = m.pool_points
    /\ max_point' = m.max_point
    /\ min_point' = m.min_point
    /\ edge_points' = m.edge_points
    /\ state_update_families' = m.state_update_families
    /\ updated_state_families' = m.updated_state_families
    /\ data' = m.data
    /\ added' = m.added
    /\ updated' = m.updated
    /\ deltas' = m.deltas
    /\ updates_pending' = m.updates_pending
    /\ publish_deltas' = m.publish_deltas
    /\ raised' = m.raised
    /\ job_pool' = [m.job_pool EXCEPT !.calls = {}]

NoOp == [name |-> "none", pool |-> {}, nodes |-> [none |-> FALSE, tasks |-> <<>>]]

Init ==
    /\ ancestors = NewMgr.ancestors
    /\ pool_points = NewMgr.pool_points
    /\ max_point = NewMgr.max_point
    /\ min_point = NewMgr.min_point
    /\ edge_points = NewMgr.edge_points
    /\ state_update_families = NewMgr.state_update_families
    /\ updated_state_families = NewMgr.updated_state_families
    /\ data = NewMgr.data
    /\ added = NewMgr.added
    /\ updated = NewMgr.updated
    /\ deltas = NewMgr.deltas
    /\ updates_pending = NewMgr.updates_pending
    /\ publish_deltas = NewMgr.publish_deltas
    /\ raised = NewMgr.raised
    /\ clock = 0
    /\ started = FALSE
    /\ mirror = EmptyStore
    /\ op = NoOp
    /\ before = NewMgr
    /\ window = NewMgr
    /\ applied = NewMgr
    /\ job_pool = NewMgr.job_pool
    /\ config = 1

\* The bundle as the publisher reads it when the handler has returned.
Sent == deepcopy(publish_deltas, deltas)

InitiateDataModel ==
    /\ ~started
    /\ \E schd_pool \in Pools :
         /\ window' = AccumulateInitial(Self, schd_pool, 0, clock + 1)
         /\ op' = [name |-> "initiate", pool |-> schd_pool,
                   nodes |-> NoOp.nodes]
    /\ applied' = ApplyStep(window', TRUE, FALSE, clock + 1)
    /\ Install(PublishClear(applied'))
    /\ before' = Self
    /\ mirror' = data'
    /\ clock' = clock + 1
    /\ started' = TRUE
    /\ UNCHANGED config

UpdateDataStructure ==
    /\ started
    /\ ~raised
    /\ clock <= MaxIter
    /\ op.name # "load_config"
    /\ \E schd_pool \in Pools :
         \E nodes \in NodeChoices(schd_pool) :
            /\ window' = AccumulateUpdate(Self, schd_pool, nodes, clock + 1)
            /\ op' = [name |-> "update", pool |-> schd_pool,
                      nodes |-> nodes]
    /\ applied' = ApplyStep(window', FALSE, FALSE, clock + 1)
    /\ Install(PublishClear(applied'))
    /\ before' = Self
    /\ mirror' = ApplyBundle(data, Sent')
    /\ clock' = clock + 1
    /\ UNCHANGED <<started, config>>

\* The scheduler loads a changed configuration; it then calls
\* initiate_data_model(reloaded=True) before anything else.
LoadConfig ==
    /\ started
    /\ ~raised
    /\ clock <= MaxIter
    /\ config = 1
    /\ config' = 2
    /\ op' = [name |-> "load_config", pool |-> {}, nodes |-> NoOp.nodes]
    /\ UNCHANGED <<ancestors, pool_points, max_point, min_point, edge_points,
                   state_update_families, updated_state_families, data,
                   added, updated, deltas, updates_pending, publish_deltas,
                   raised, clock, started, mirror, before, window, applied,
                   job_pool>>

InitiateReload ==
    /\ op.name = "load_config"
    /\ \E schd_pool \in Pools :
         /\ window' = AccumulateReload(Self, schd_pool, 0, clock + 1)
         /\ op' = [name |-> "reload", pool |-> schd_pool,
                   nodes |-> NoOp.nodes]
    /\ applied' = ApplyStep(window', TRUE, TRUE, clock + 1)
    /\ Install(PublishClear(applied'))
    /\ before' = Self
    /\ mirror' = data'
    /\ clock' = clock + 1
    /\ UNCHANGED <<started, config>>

Next ==
    InitiateDataModel \/ UpdateDataStructure \/ LoadConfig \/ InitiateReload

Spec == Init /\ [][Next]_vars

\* ---------------------------------------------- apply_delta on a mirror
\* apply_delta as a subscriber uses it: the target is the store of a mirror
\* initiated at some pool (InitiateMirror), the delta is a per-kind message of
\* a bundle some publisher sent after one update. The mirror may have missed what the
\* publisher held (a mirror out of sync), so an updated element may name an
\* id the target lacks.
SentBundle(pool0, pool1, nodes) ==
    update_data_structure(initiate_data_model(NewMgr, pool0, 0, 1),
                          pool1, nodes, 2).publish_deltas

InitApply ==
    /\ config = 1
    /\ ancestors = NewMgr.ancestors
    /\ pool_points = NewMgr.pool_points
    /\ max_point = NewMgr.max_point
    /\ min_point = NewMgr.min_point
    /\ edge_points = NewMgr.edge_points
    /\ state_update_families = NewMgr.state_update_families
    /\ updated_state_families = NewMgr.updated_state_families
    /\ data = NewMgr.data
    /\ added = NewMgr.added
    /\ updated = NewMgr.updated
    /\ deltas = NewMgr.deltas
    /\ updates_pending = NewMgr.updates_pending
    /\ publish_deltas = NewMgr.publish_deltas
    /\ raised = FALSE
    /\ clock = 0
    /\ started = FALSE
    /\ mirror = EmptyStore
    /\ op = NoOp
    /\ before = NewMgr
    /\ window = NewMgr
    /\ applied = NewMgr
    /\ job_pool = NewMgr.job_pool

\* The mirror takes the store of a manager initiated at some pool.
InitiateMirror ==
    /\ clock = 0
    /\ \E schd_pool \in Pools :
         /\ window' = AccumulateInitial(NewMgr, schd_pool, 0, 1)
         /\ op' = [name |-> "initiate", pool |-> schd_pool,
                   nodes |-> NoOp.nodes]
    /\ applied' = ApplyStep(window', TRUE, FALSE, 1)
    /\ mirror' = PublishClear(applied').data
    /\ clock' = 1
    /\ UNCHANGED <<ancestors, pool_points, max_point, min_point, edge_points,
                   state_update_families, updated_state_families, data,
                   added, updated, deltas, updates_pending, publish_deltas,
                   raised, started, before, config,
                   job_pool>>

\* One apply_delta(key, delta, data) call on the mirror; before.data keeps
\* the target as it was, op the arguments, raised whether an error escaped.
ApplyDelta ==
    /\ clock = 1
    /\ \E pool0 \in Pools, pool1 \in Pools :
         \E nodes \in NodeChoices(pool1) :
            \E i \in 1..Len(SentBundle(pool0, pool1, nodes)) :
               /\ SentBundle(pool0, pool1, nodes)[i][1] # ALL_DELTAS
               /\ op' = [name |-> "apply_delta",
                         key |-> SentBundle(pool0, pool1, nodes)[i][1],
                         delta |-> SentBundle(pool0, pool1, nodes)[i][2]]
    /\ mirror' = apply_delta(op'.key, op'.delta, mirror).data
    /\ raised' = apply_delta(op'.key, op'.delta, mirror).raised
    /\ before' = [NewMgr EXCEPT !.data = mirror]
    /\ clock' = 2
    /\ UNCHANGED <<ancestors, pool_points, max_point, min_point, edge_points,
                   state_update_families, updated_state_families, data,
                   added, updated, deltas, updates_pending, publish_deltas,
                   started, window, applied, config,
                   job_pool>>

NextApply == InitiateMirror \/ ApplyDelta

SpecApply == InitApply /\ [][NextApply]_vars

\* ------------------------------------- update_task_proxies on a batch
\* update_task_proxies as update_dynamic_elements calls it: the manager has
\* been initiated at some pool and has just run increment_graph_elements for
\* the current pool; the batch is up to MaxBatch distinct live tasks of the
\* current pool, some of which may have no proxy.
MaxBatch == 2

Batches(pool) ==
    {s \in UNION {[1..n -> LiveTasks(pool)] : n \in 0..MaxBatch} :
        \A i \in 1..Len(s) : \A j \in 1..Len(s) :
            i # j => <<s[i].point, s[i].name>> # <<s[j].point, s[j].name>>}

Incremented(pool0, pool1) ==
    increment_graph_elements(initiate_data_model(NewMgr, pool0, 0, 1),
                             pool1, 2)

InitTasks ==
    /\ config = 1
    /\ ancestors = NewMgr.ancestors
    /\ pool_points = NewMgr.pool_points
    /\ max_point = NewMgr.max_point
    /\ min_point = NewMgr.min_point
    /\ edge_points = NewMgr.edge_points
    /\ state_update_families = NewMgr.state_update_families
    /\ updated_state_families = NewMgr.updated_state_families
    /\ data = NewMgr.data
    /\ added = NewMgr.added
    /\ updated = NewMgr.updated
    /\ deltas = NewMgr.deltas
    /\ updates_pending = NewMgr.updates_pending
    /\ publish_deltas = NewMgr.publish_deltas
    /\ raised = FALSE
    /\ clock = 0
    /\ started = FALSE
    /\ mirror = EmptyStore
    /\ op = NoOp
    /\ before = NewMgr
    /\ window = NewMgr
    /\ applied = NewMgr
    /\ job_pool = NewMgr.job_pool

\* One update_task_proxies(updated_tasks) call; before keeps the manager as
\* it was, window the manager when the call has returned.
UpdateTaskProxies ==
    /\ clock = 0
    /\ \E pool0 \in Pools, pool1 \in Pools :
         \E batch \in Batches(pool1) :
            /\ before' = Incremented(pool0, pool1)
            /\ op' = [name |-> "update_task_proxies", pool |-> pool1,
                      nodes |-> [none |-> FALSE, tasks |-> batch]]
    /\ window' = update_task_proxies(before', op'.nodes.tasks, 2)
    /\ clock' = 1
    /\ UNCHANGED <<ancestors, pool_points, max_point, min_point, edge_points,
                   state_update_families, updated_state_families, data,
                   added, updated, deltas, updates_pending, publish_deltas,
                   raised, started, mirror, applied, config,
                   job_pool>>

NextTasks == UpdateTaskProxies

SpecTasks == InitTasks /\ [][NextTasks]_vars

\* ------------------------------------------------ handlers with a job pool
\* The handlers when the scheduler submits jobs: the job pool takes up to
\* MaxJobs jobs of task proxies of the pool between the handler calls, one
\* update_data_structure call reports the tasks that hold jobs, and a
\* reload follows a changed configuration.
MaxJobs == 2
MaxJobIter == 1

\* The tasks that may be given a job.
JobTaskNames == {"A", "B"}

\* The live tasks that hold a job, as the scheduler reports them.
RECURSIVE JobNodes(_)
JobNodes(tp_ids) ==
    IF tp_ids = {} THEN <<>>
    ELSE LET tp_id == CHOOSE x \in tp_ids : TRUE
         IN <<[name |-> tp_id[2], point |-> tp_id[1], status |-> "running",
               is_held |-> FALSE]>> \o JobNodes(tp_ids \ {tp_id})

InitJobs ==
    /\ config = 1
    /\ ancestors = NewMgr.ancestors
    /\ pool_points = NewMgr.pool_points
    /\ max_point = NewMgr.max_point
    /\ min_point = NewMgr.min_point
    /\ edge_points = NewMgr.edge_points
    /\ state_update_families = NewMgr.state_update_families
    /\ updated_state_families = NewMgr.updated_state_families
    /\ data = NewMgr.data
    /\ added = NewMgr.added
    /\ updated = NewMgr.updated
    /\ deltas = NewMgr.deltas
    /\ updates_pending = NewMgr.updates_pending
    /\ publish_deltas = NewMgr.publish_deltas
    /\ raised = NewMgr.raised
    /\ clock = 0
    /\ started = FALSE
    /\ mirror = EmptyStore
    /\ op = NoOp
    /\ before = NewMgr
    /\ window = NewMgr
    /\ applied = NewMgr
    /\ job_pool \in {[EmptyJobPool EXCEPT !.writes_pool = b] : b \in BOOLEAN}

\* The scheduler submits a job of a task proxy of the pool; the store's
\* jobs map is the job pool's pool dictionary.
InsertJob ==
    /\ started
    /\ ~raised
    /\ op.name # "load_config"
    /\ clock <= MaxJobIter
    /\ Cardinality(DOMAIN job_pool.added \cup DOMAIN data.jobs) < MaxJobs
    /\ \E tp_id \in DOMAIN data.task_proxies :
         /\ tp_id[1] \in pool_points
         /\ tp_id[2] \in JobTaskNames
         /\ job_pool' = insert_job(job_pool, tp_id, clock)
    /\ data' = [data EXCEPT !.jobs = job_pool'.pool]
    /\ op' = [name |-> "insert_job", pool |-> pool_points,
              nodes |-> NoOp.nodes]
    /\ UNCHANGED <<ancestors, pool_points, max_point, min_point, edge_points,
                   state_update_families, updated_state_families,
                   added, updated, deltas, updates_pending, publish_deltas,
                   raised, clock, started, mirror, before, window, applied,
                   config>>

\* update_data_structure(updated_nodes) with the tasks that hold jobs.
UpdateJobs ==
    /\ started
    /\ ~raised
    /\ clock <= MaxJobIter
    /\ op.name # "load_config"
    /\ \E schd_pool \in Pools :
         /\ window' = AccumulateUpdate(
                          Self, schd_pool,
                          [none |-> FALSE,
                           tasks |-> JobNodes(
                               {tp_id \in DOMAIN job_pool.task_jobs :
                                   tp_id[1] \in schd_pool})],
                          clock + 1)
         /\ op' = [name |-> "update", pool |-> schd_pool,
                   nodes |-> NoOp.nodes]
    /\ applied' = ApplyStep(window', FALSE, FALSE, clock + 1)
    /\ Install(PublishClear(applied'))
    /\ before' = Self
    /\ mirror' = ApplyBundle(data, Sent')
    /\ clock' = clock + 1
    /\ UNCHANGED <<started, config>>

NextJobs ==
    InitiateDataModel \/ InsertJob \/ UpdateJobs \/ LoadConfig
    \/ InitiateReload

SpecJobs == InitJobs /\ [][NextJobs]_vars

\* --------------------------------------------- the checksum of a delta
\* apply_deltas as update_data_structure calls it, on a manager initiated
\* at some pool that has accumulated the changes of another pool; then the
\* strings of one store slice are taken with two of them swapped, as a
\* store would give them that holds the same elements in another order.
InitChecksum ==
    /\ config = 1
    /\ ancestors = NewMgr.ancestors
    /\ pool_points = NewMgr.pool_points
    /\ max_point = NewMgr.max_point
    /\ min_point = NewMgr.min_point
    /\ edge_points = NewMgr.edge_points
    /\ state_update_families = NewMgr.state_update_families
    /\ updated_state_families = NewMgr.updated_state_families
    /\ data = NewMgr.data
    /\ added = NewMgr.added
    /\ updated = NewMgr.updated
    /\ deltas = NewMgr.deltas
    /\ updates_pending = NewMgr.updates_pending
    /\ publish_deltas = NewMgr.publish_deltas
    /\ raised = NewMgr.raised
    /\ clock = 0
    /\ started = FALSE
    /\ mirror = EmptyStore
    /\ op = NoOp
    /\ before = NewMgr
    /\ window = NewMgr
    /\ applied = NewMgr
    /\ job_pool = NewMgr.job_pool

\* One apply_deltas() call; window keeps the manager as it was, applied the
\* manager when the call has returned.
ApplyDeltas ==
    /\ clock = 0
    /\ \E pool0 \in Pools, pool1 \in Pools :
         /\ window' = AccumulateUpdate(
                          initiate_data_model(NewMgr, pool0, 0, 1), pool1,
                          [none |-> TRUE, tasks |-> <<>>], 2)
         /\ op' = [name |-> "apply_deltas", pool |-> pool1,
                   nodes |-> NoOp.nodes]
    /\ applied' = apply_deltas(window', FALSE, 2)
    /\ clock' = 1
    /\ UNCHANGED <<ancestors, pool_points, max_point, min_point, edge_points,
                   state_update_families, updated_state_families, data,
                   added, updated, deltas, updates_pending, publish_deltas,
                   raised, started, mirror, before, config, job_pool>>

\* The sequence s with the entries at i and j swapped.
Swap(s, i, j) ==
    [x \in DOMAIN s |-> IF x = i THEN s[j] ELSE IF x = j THEN s[i] ELSE s[x]]

\* The strings of one slice of the store, two of them swapped.
Reorder ==
    /\ clock = 1
    /\ \E key \in DictKinds :
         \E i \in DOMAIN SliceStrings(key, applied.data[key]) :
            \E j \in DOMAIN SliceStrings(key, applied.data[key]) :
               /\ i < j
               /\ op' = [name |-> "reorder", key |-> key,
                         strings |-> Swap(SliceStrings(key, applied.data[key]),
                                          i, j)]
    /\ clock' = 2
    /\ UNCHANGED <<ancestors, pool_points, max_point, min_point, edge_points,
                   state_update_families, updated_state_families, data,
                   added, updated, deltas, updates_pending, publish_deltas,
                   raised, started, mirror, before, window, applied, config,
                   job_pool>>

NextChecksum == ApplyDeltas \/ Reorder

SpecChecksum == InitChecksum /\ [][NextChecksum]_vars

\* ------------------------------------------------------------ properties
\* The per-kind delta of the last published bundle, EmptyDelta when the kind
\* published nothing.
Published(key) ==
    IF \E i \in 1..Len(publish_deltas) : publish_deltas[i][1] = key
    THEN publish_deltas[CHOOSE i \in 1..Len(publish_deltas) :
                            publish_deltas[i][1] = key][2]
    ELSE EmptyDelta

\* The number of occurrences of x in the list s.
Count(x, s) == Cardinality({i \in 1..Len(s) : s[i] = x})

\* The task proxies that descend from a family proxy of a store, through
\* child_tasks and child_families.
RECURSIVE Descendants(_, _)
Descendants(store, fp_id) ==
    IF fp_id \notin DOMAIN store.family_proxies THEN {}
    ELSE LET f == store.family_proxies[fp_id]
         IN (SeqToSet(Get(f, "child_tasks", <<>>))
                \cap DOMAIN store.task_proxies)
            \cup UNION {Descendants(store, c) :
                          c \in SeqToSet(Get(f, "child_families", <<>>))}

\* The multiset of the states of a set of task proxies of a store.
StateTotalsOf(store, ids) ==
    [st \in {Get(store.task_proxies[i], "state", NoState) : i \in ids}
              \ {NoState} |->
        Cardinality({i \in ids :
                       Get(store.task_proxies[i], "state", NoState) = st})]

HeldTotalOf(store, ids) ==
    Cardinality({i \in ids : Get(store.task_proxies[i], "is_held", FALSE)})

RootProxies(store) ==
    {f \in DOMAIN store.family_proxies :
        store.family_proxies[f].name = "root"}

RECURSIVE SumStateTotals(_, _)
SumStateTotals(store, ids) ==
    IF ids = {} THEN <<>>
    ELSE LET x == CHOOSE y \in ids : TRUE
         IN CounterAdd(Get(store.family_proxies[x], "state_totals", <<>>),
                       SumStateTotals(store, ids \ {x}))

RECURSIVE SumHeldTotals(_, _)
SumHeldTotals(store, ids) ==
    IF ids = {} THEN 0
    ELSE LET x == CHOOSE y \in ids : TRUE
         IN Get(store.family_proxies[x], "is_held_total", 0)
            + SumHeldTotals(store, ids \ {x})

\* C1: a mirror equal to the store before a non-reload iteration, having
\* applied every per-kind delta of the bundle that iteration published,
\* equals the store after the iteration.
RoundTrip == (op.name = "update") => mirror = data

\* C2: at the end of every iteration, every family proxy's state_totals is
\* the multiset of the states of the task proxies that descend from it.
RollupCorrect ==
    started =>
      \A f \in DOMAIN data.family_proxies :
         Get(data.family_proxies[f], "state_totals", <<>>)
            = StateTotalsOf(data, Descendants(data, f))

\* C3: at the end of every iteration that ran update_workflow (it published
\* a workflow delta), workflow.state_totals and workflow.is_held_total are
\* the sums of those of all the root family proxies of the store.
WorkflowAggregation ==
    (started /\ DeltaIsSet(Published(WORKFLOW))) =>
      /\ Get(data.workflow, "state_totals", <<>>)
            = SumStateTotals(data, RootProxies(data))
      /\ Get(data.workflow, "is_held_total", 0)
            = SumHeldTotals(data, RootProxies(data))

\* C4: after an iteration that transcribed live tasks, every family proxy's
\* is_held_total is the number of its held descendant task proxies and its
\* is_held is true exactly when that number is positive.
HoldPropagation ==
    (op.name = "update" /\ op.nodes.tasks # <<>>) =>
      \A f \in DOMAIN data.family_proxies :
         LET held == HeldTotalOf(data, Descendants(data, f))
         IN /\ Get(data.family_proxies[f], "is_held_total", 0) = held
            /\ Get(data.family_proxies[f], "is_held", FALSE) = (held > 0)

\* C5: at the end of every iteration, every task proxy's id is listed
\* exactly once by its TaskDef, by its first parent (which is in the store)
\* and by the workflow; and likewise every family proxy's id by its
\* FamilyDef, its first parent when it has one, and the workflow.
BackReferenceSymmetry ==
    started =>
      /\ \A tp \in DOMAIN data.task_proxies :
           LET n == data.task_proxies[tp]
           IN /\ n.task \in DOMAIN data.tasks
              /\ Count(tp, Get(data.tasks[n.task], "proxies", <<>>)) = 1
              /\ n.first_parent \in DOMAIN data.family_proxies
              /\ Count(tp, Get(data.family_proxies[n.first_parent],
                               "child_tasks", <<>>)) = 1
              /\ Count(tp, Get(data.workflow, TASK_PROXIES, <<>>)) = 1
      /\ \A fp \in DOMAIN data.family_proxies :
           LET n == data.family_proxies[fp]
           IN /\ n.family \in DOMAIN data.families
              /\ Count(fp, Get(data.families[n.family], "proxies", <<>>)) = 1
              /\ ("first_parent" \in DOMAIN n =>
                    /\ n.first_parent \in DOMAIN data.family_proxies
                    /\ Count(fp, Get(data.family_proxies[n.first_parent],
                                     "child_families", <<>>)) = 1)
              /\ Count(fp, Get(data.workflow, FAMILY_PROXIES, <<>>)) = 1

\* C6: at the end of every iteration, every id listed in
\* workflow.task_proxies, workflow.family_proxies, a TaskDef's proxies or a
\* FamilyDef's proxies is the id of a proxy present in the store.
NoStaleProxyReferences ==
    started =>
      /\ SeqToSet(Get(data.workflow, TASK_PROXIES, <<>>))
            \subseteq DOMAIN data.task_proxies
      /\ SeqToSet(Get(data.workflow, FAMILY_PROXIES, <<>>))
            \subseteq DOMAIN data.family_proxies
      /\ \A d \in DOMAIN data.tasks :
            SeqToSet(Get(data.tasks[d], "proxies", <<>>))
               \subseteq DOMAIN data.task_proxies
      /\ \A d \in DOMAIN data.families :
            SeqToSet(Get(data.families[d], "proxies", <<>>))
               \subseteq DOMAIN data.family_proxies

\* An iteration has just pruned task proxies and family proxies out of a
\* store that still holds others.
NoStaleProxyReferencesWitness ==
    /\ op.name = "update"
    /\ Published(TASK_PROXIES).pruned # {}
    /\ Published(FAMILY_PROXIES).pruned # {}
    /\ Published(TASK_PROXIES).pruned \cap DOMAIN data.task_proxies = {}
    /\ data.task_proxies # <<>>
    /\ data.family_proxies # <<>>

\* C7: at the end of every iteration, every task proxy's task is the id of a
\* TaskDef of the store and every family proxy's family is the id of a
\* FamilyDef of the store.
DefinitionIntegrity ==
    started =>
      /\ \A tp \in DOMAIN data.task_proxies :
            data.task_proxies[tp].task \in DOMAIN data.tasks
      /\ \A fp \in DOMAIN data.family_proxies :
            data.family_proxies[fp].family \in DOMAIN data.families

\* An iteration has just added task proxies and family proxies to the store.
DefinitionIntegrityWitness ==
    /\ op.name = "update"
    /\ DOMAIN Published(TASK_PROXIES).added # {}
    /\ DOMAIN Published(FAMILY_PROXIES).added # {}
    /\ DOMAIN Published(TASK_PROXIES).added \subseteq DOMAIN data.task_proxies
    /\ DOMAIN Published(FAMILY_PROXIES).added
          \subseteq DOMAIN data.family_proxies

\* C8: at the end of every iteration, every edge of the store has both its
\* endpoints in the store's task proxies, or an endpoint whose cycle point
\* is in the pool points.
EdgeLiveness ==
    started =>
      \A e \in DOMAIN data.edges :
         \/ /\ data.edges[e].source \in DOMAIN data.task_proxies
            /\ data.edges[e].target \in DOMAIN data.task_proxies
         \/ data.edges[e].source[1] \in pool_points
         \/ data.edges[e].target[1] \in pool_points

\* C9: after an iteration that pruned, every edge left in the store whose
\* source is a valid task id has its source and its target in the store's
\* task proxies, the edges created in that iteration included.
EdgesAfterPrune ==
    (started /\ \E k \in DictKinds : Published(k).pruned # {}) =>
      \A e \in DOMAIN data.edges :
         data.edges[e].source[2] \in SeqToSet(TaskNames) =>
            /\ data.edges[e].source \in DOMAIN data.task_proxies
            /\ data.edges[e].target \in DOMAIN data.task_proxies

\* The points edge_points names, as a source key or in a target set.
EdgePointsNamed ==
    DOMAIN edge_points \cup UNION {edge_points[s] : s \in DOMAIN edge_points}

\* C10: at the end of every iteration with a non-empty pool, every task
\* proxy and family proxy of the store has a cycle point that is in
\* pool_points or that edge_points names.
NoLeakedPoints ==
    (started /\ pool_points # {}) =>
      /\ \A tp \in DOMAIN data.task_proxies :
            data.task_proxies[tp].cycle_point
               \in pool_points \cup EdgePointsNamed
      /\ \A fp \in DOMAIN data.family_proxies :
            data.family_proxies[fp].cycle_point
               \in pool_points \cup EdgePointsNamed

\* An increment has just pruned proxies of a point and created a proxy at a
\* point it pruned, outside the pool.
NoLeakedPointsWitness ==
    /\ op.name = "update"
    /\ pool_points # {}
    /\ Published(FAMILY_PROXIES).pruned # {}
    /\ \E tp \in DOMAIN Published(TASK_PROXIES).added :
          /\ tp \in DOMAIN data.task_proxies
          /\ tp[1] \notin pool_points
          /\ \E fp \in Published(FAMILY_PROXIES).pruned : fp[1] = tp[1]

\* The manager of the last call when its new points have been generated, just
\* before the prune loop of increment_graph_elements.
Generated ==
    GenerateNewPoints(
      [(IF op.name = "initiate"
        THEN generate_definition_elements(before, clock, 0)
        ELSE before) EXCEPT !.pool_points = op.pool],
      op.pool \ before.pool_points, clock)

\* The cycle points the last call scheduled for pruning.
ScheduledPoints ==
    IF op.name = "none" \/ op.pool = {} THEN {}
    ELSE PrunePointSet(Generated.edge_points, op.pool)

\* The source points whose edge_points entry the last call deleted.
DroppedSourcePoints ==
    IF op.name = "none" \/ op.pool = {} THEN {}
    ELSE DroppedSources(Generated.edge_points, op.pool)

\* C11: when a call schedules a cycle point for pruning, then after that
\* call's deltas are applied the store holds no task proxy and no family proxy
\* at that point and no edge whose source or target is a task proxy at that
\* point, and a dropped source point is no longer a key of edge_points.
PruningByPoint ==
    /\ \A p \in ScheduledPoints :
          /\ \A tp_id \in DOMAIN data.task_proxies :
                data.task_proxies[tp_id].cycle_point # p
          /\ \A fp_id \in DOMAIN data.family_proxies :
                data.family_proxies[fp_id].cycle_point # p
          /\ \A e_id \in DOMAIN data.edges :
                /\ data.edges[e_id].source[1] # p
                /\ data.edges[e_id].target[1] # p
    /\ \A s \in DroppedSourcePoints : s \notin DOMAIN edge_points

\* C12: after every increment_graph_elements call with a non-empty pool,
\* min_point is the minimum and max_point the maximum of pool_points, both
\* when points enter the pool and when points only leave it.
PoolExtrema ==
    (op.name # "none" /\ op.pool # {}) =>
        /\ pool_points = op.pool
        /\ min_point = Min(pool_points)
        /\ max_point = Max(pool_points)

\* C13: in an accumulation window, before the deltas are applied, no id is
\* both in an added bucket (edges, task proxies, family proxies) and in the
\* store; an edge of the store is not put into added[edges] again when its
\* cycle point re-enters the pool.
AddedStoreDisjoint ==
    \A key \in {EDGES, TASK_PROXIES, FAMILY_PROXIES} :
        DOMAIN window.added[key] \cap DOMAIN window.data[key] = {}

\* C14: for every entity of the store other than an edge, whenever a call
\* changes any of its fields (appended edges, children, proxies or job ids
\* included), the entity's stamp after the call differs from the one before.
StampRefresh ==
    /\ \A key \in {TASKS, FAMILIES, TASK_PROXIES, FAMILY_PROXIES} :
          \A id \in DOMAIN before.data[key] \cap DOMAIN data[key] :
              data[key][id] # before.data[key][id] =>
                  Get(data[key][id], "stamp", NoTime)
                      # Get(before.data[key][id], "stamp", NoTime)
    /\ (op.name = "update" /\ data.workflow # before.data.workflow) =>
          Get(data.workflow, "stamp", NoTime)
              # Get(before.data.workflow, "stamp", NoTime)

\* The stamp an entity of a store carries, NoTime when the store lacks it.
StampIn(store, key, id) ==
    IF key = WORKFLOW THEN Get(store.workflow, "stamp", NoTime)
    ELSE IF id \in DOMAIN store[key] THEN Get(store[key][id], "stamp", NoTime)
    ELSE NoTime

\* The live task handed to the last update_data_structure call whose proxy
\* was known (in the store or generated by that call) and whose status
\* differs from the state the store held for it.
ChangedTasks ==
    IF op.name # "update" THEN {}
    ELSE {it \in SeqToSet(op.nodes.tasks) :
            LET tp_id == <<it.point, it.name>>
            IN /\ tp_id \in DOMAIN window.data.task_proxies
                            \cup DOMAIN window.added.task_proxies
               /\ (tp_id \in DOMAIN before.data.task_proxies =>
                     Get(before.data.task_proxies[tp_id], "state", NoState)
                         # it.status)}

\* C15: when a live task whose proxy is known changes status and is passed to
\* update_data_structure, then after that call the store's task proxy state
\* is the live status, and the stamps of the task proxy, of every ancestor
\* family proxy up to root at that point and of the workflow are all newer
\* than before.
StateChangePropagation ==
    \A it \in ChangedTasks :
        LET tp_id == <<it.point, it.name>>
        IN /\ tp_id \in DOMAIN data.task_proxies
           /\ Get(data.task_proxies[tp_id], "state", NoState) = it.status
           /\ StampIn(data, TASK_PROXIES, tp_id)
                  > StampIn(before.data, TASK_PROXIES, tp_id)
           /\ \A name \in SeqToSet(get_first_parent_ancestors[it.name]) \ {it.name} :
                 /\ <<it.point, name>> \in DOMAIN data.family_proxies
                 /\ StampIn(data, FAMILY_PROXIES, <<it.point, name>>)
                        > StampIn(before.data, FAMILY_PROXIES,
                                  <<it.point, name>>)
           /\ StampIn(data, WORKFLOW, NoId)
                  > StampIn(before.data, WORKFLOW, NoId)

StateChangePropagationWitness ==
    /\ ChangedTasks # {}
    /\ \E it \in ChangedTasks :
          /\ <<it.point, it.name>> \in DOMAIN before.data.task_proxies
          /\ Get(before.data.task_proxies[<<it.point, it.name>>],
                 "state", NoState) = "running"
          /\ Get(data.task_proxies[<<it.point, it.name>>], "state", NoState)
                = "waiting"
          /\ Len(get_first_parent_ancestors[it.name]) = 3

\* The family proxy elements of the last call's updated bucket that carry a
\* recomputed rollup (_family_ascent_point_update sets is_held_total with it)
\* and are applied to an element of the store.
RecomputedFamilies ==
    {fp_id \in DOMAIN window.updated.family_proxies :
        /\ "is_held_total" \in DOMAIN window.updated.family_proxies[fp_id]
        /\ fp_id \in DOMAIN window.data.family_proxies
                     \cup DOMAIN window.added.family_proxies
        /\ fp_id \in DOMAIN data.family_proxies}

\* update_workflow ran in the last call (it sets last_updated) and its
\* element was applied.
RecomputedWorkflow ==
    /\ op.name # "none"
    /\ "last_updated" \in DOMAIN window.updated.workflow
    /\ window.updates_pending \/ op.name = "initiate"

\* C16: when an updated element is applied, every clear-before-merge field
\* of its kind is in the store with exactly the value computed in this call
\* (replaced, not accumulated), also when the computed value is empty.
ClearBeforeMerge ==
    /\ \A fp_id \in RecomputedFamilies :
          \A f \in CLEAR_FIELD_MAP[FAMILY_PROXIES] :
              Get(data.family_proxies[fp_id], f, <<>>)
                  = Get(window.updated.family_proxies[fp_id], f, <<>>)
    /\ RecomputedWorkflow =>
          \A f \in CLEAR_FIELD_MAP[WORKFLOW] :
              Get(data.workflow, f, <<>>)
                  = Get(window.updated.workflow, f, <<>>)

\* The updated elements of the applied delta whose id is absent from the
\* target store (and is not added by the same delta).
MissingTargets ==
    IF op.name # "apply_delta" \/ op.key = WORKFLOW THEN {}
    ELSE {id \in DOMAIN op.delta.updated :
            id \notin DOMAIN before.data[op.key] \cup DOMAIN op.delta.added}

\* C17: when apply_delta meets an updated element whose id is absent from the
\* target store, the element is skipped without creating the id, no error
\* escapes, and every other added, updated and pruned entry of the same delta
\* is still applied.
MissingUpdateTarget ==
    MissingTargets # {} =>
        LET key == op.key
            delta == op.delta
            old == delta.added @@ before.data[key]
        IN /\ ~raised
           /\ \A id \in MissingTargets : id \notin DOMAIN mirror[key]
           /\ \A id \in delta.pruned : id \notin DOMAIN mirror[key]
           /\ \A id \in DOMAIN delta.added \ delta.pruned :
                 id \in DOMAIN mirror[key]
           /\ \A id \in (DOMAIN delta.updated \ MissingTargets)
                            \ delta.pruned :
                 mirror[key][id] = MergeFrom(
                     [f \in DOMAIN old[id] \ (CLEAR_FIELD_MAP[key]
                                   \cap DOMAIN delta.updated[id]) |->
                         old[id][f]],
                     delta.updated[id])

MissingUpdateTargetWitness ==
    /\ MissingTargets # {}
    /\ DOMAIN op.delta.updated \ MissingTargets # {}
    /\ DOMAIN op.delta.added # {}
    /\ op.delta.pruned \cap DOMAIN before.data[op.key] # {}
    /\ ~raised

\* A manager whose added and updated buckets and per-kind delta messages
\* (added, updated, pruned, time, reloaded, checksum) are all empty.
BuffersEmpty(m) ==
    /\ \A key \in DictKinds :
          /\ DOMAIN m.added[key] = {}
          /\ DOMAIN m.updated[key] = {}
    /\ ListFields(m.added.workflow) = {}
    /\ ListFields(m.updated.workflow) = {}
    /\ \A key \in DOMAIN m.deltas :
          /\ DOMAIN m.deltas[key].added = {}
          /\ DOMAIN m.deltas[key].updated = {}
          /\ m.deltas[key].pruned = {}
          /\ ~DeltaIsSet(m.deltas[key])

\* C18: after every completed initiate_data_model or update_data_structure
\* call all added and updated buckets and all per-kind delta messages, the
\* pruned lists included, are empty; clear_deltas is idempotent; and
\* get_publish_deltas right after clear_deltas returns a bundle whose only
\* entry is the all-deltas aggregate, with no per-kind content.
BuffersCleared ==
    op.name \in {"initiate", "update"} =>
        /\ BuffersEmpty(Self)
        /\ clear_deltas(clear_deltas(applied)) = clear_deltas(applied)
        /\ clear_deltas(Self) = Self
        /\ Len(get_publish_deltas(clear_deltas(applied))) = 1
        /\ get_publish_deltas(clear_deltas(applied))[1][1] = ALL_DELTAS
        /\ DOMAIN get_publish_deltas(clear_deltas(applied))[1][2] = {}

BuffersClearedWitness ==
    /\ op.name = "update"
    /\ DOMAIN applied.added.task_proxies # {}
    /\ DOMAIN applied.updated.family_proxies # {}
    /\ applied.deltas.task_proxies.pruned # {}
    /\ DeltaIsSet(applied.deltas.workflow)
    /\ BuffersEmpty(Self)

\* The kinds whose delta message was non-empty when the last call built its
\* bundle.
SetKinds == {k \in DOMAIN applied.deltas : DeltaIsSet(applied.deltas[k])}

\* C19: the bundle of get_publish_deltas holds one (kind, message) entry for
\* every non-empty per-kind delta and none for an empty one, followed by
\* exactly one all-deltas entry, always present and last, that holds a copy
\* of exactly the non-empty per-kind deltas.
PublishBundleShape ==
    op.name \in {"initiate", "update"} =>
        LET n == Len(publish_deltas)
        IN /\ n = Cardinality(SetKinds) + 1
           /\ publish_deltas[n][1] = ALL_DELTAS
           /\ DOMAIN publish_deltas[n][2] = SetKinds
           /\ \A k \in SetKinds :
                 publish_deltas[n][2][k] = applied.deltas[k]
           /\ \A i \in 1..(n - 1) :
                 /\ publish_deltas[i][1] \in SetKinds
                 /\ publish_deltas[i][2] = applied.deltas[publish_deltas[i][1]]
           /\ \A k \in SetKinds :
                 Cardinality({i \in 1..(n - 1) : publish_deltas[i][1] = k}) = 1

PublishBundleShapeWitness ==
    /\ op.name = "update"
    /\ SetKinds # {}
    /\ SetKinds # DOMAIN applied.deltas
    /\ Len(publish_deltas) = Cardinality(SetKinds) + 1
    /\ publish_deltas[Len(publish_deltas)][1] = ALL_DELTAS

\* The bundle a manager holds, as a reader sees it at that moment.
BundleOf(m) == deepcopy(m.publish_deltas, m.deltas)

\* C20: the bundle a call stores in publish_deltas is not changed by the
\* clear_deltas that follows, nor by what the next call accumulates and
\* applies, until the next call replaces it.
BundleIsolation ==
    op.name \in {"initiate", "update"} =>
        /\ Sent = deepcopy(get_publish_deltas(applied), applied.deltas)
        /\ BundleOf(window) = BundleOf(before)
        /\ BundleOf(applied) = BundleOf(before)

BundleIsolationWitness ==
    /\ op.name = "update"
    /\ Len(before.publish_deltas) > 2
    /\ \E key \in DictKinds : applied.deltas[key].pruned # {}
    /\ DeltaIsSet(applied.deltas.workflow)
    /\ Len(publish_deltas) > 2
    /\ Sent # BundleOf(before)
    /\ BundleOf(applied) = BundleOf(before)

\* The live tasks handed to the last update_data_structure call whose proxy
\* was known to update_task_proxies.
KnownTasks ==
    IF op.name # "update" THEN {}
    ELSE {it \in SeqToSet(op.nodes.tasks) :
            <<it.point, it.name>> \in DOMAIN window.data.task_proxies
                                      \cup DOMAIN window.added.task_proxies}

\* C21: within one update_data_structure call the steps run in the order
\* graph increment, task-proxy transcription, family rollup, workflow summary,
\* delta apply, bundle capture, clear: the bundle captured by a call holds the
\* family and workflow deltas computed from the task updates of that call,
\* and nothing the call accumulated is cleared before it has been applied.
IterationOrdering ==
    op.name = "update" =>
        /\ \A it \in KnownTasks :
              LET tp_id == <<it.point, it.name>>
                  fp_id == data.task_proxies[tp_id].first_parent
              IN /\ tp_id \in DOMAIN Published(TASK_PROXIES).updated
                 /\ Published(TASK_PROXIES).updated[tp_id].state = it.status
                 /\ fp_id \in DOMAIN Published(FAMILY_PROXIES).updated
                 /\ (fp_id \in DOMAIN before.data.family_proxies
                     /\ InSeq(tp_id, Get(before.data.family_proxies[fp_id],
                                         "child_tasks", <<>>))) =>
                       it.status \in DOMAIN Get(
                           Published(FAMILY_PROXIES).updated[fp_id],
                           "state_totals", <<>>)
                 /\ Get(Published(FAMILY_PROXIES).updated[fp_id],
                        "stamp", NoTime) = clock
                 /\ Get(Published(WORKFLOW).updated, "stamp", NoTime) = clock
        /\ \A key \in DictKinds :
              /\ \A id \in DOMAIN window.added[key] :
                    /\ id \in DOMAIN Published(key).added
                    /\ id \in DOMAIN data[key]
                          \cup Published(key).pruned
              /\ \A id \in DOMAIN window.updated[key] :
                    /\ id \in DOMAIN Published(key).updated
                    /\ id \in DOMAIN data[key]
                          \cup Published(key).pruned
                    /\ (id \in DOMAIN data[key]
                        /\ "stamp" \in DOMAIN window.updated[key][id]) =>
                          data[key][id].stamp = window.updated[key][id].stamp
        /\ ListFields(window.updated.workflow) # {} =>
              /\ Published(WORKFLOW).updated = window.updated.workflow
              /\ Get(data.workflow, "stamp", NoTime)
                    = Get(window.updated.workflow, "stamp", NoTime)
        /\ \A key \in DictKinds :
              window.deltas[key].pruned \subseteq Published(key).pruned

IterationOrderingWitness ==
    /\ op.name = "update"
    /\ \E it \in KnownTasks :
          /\ <<it.point, it.name>> \in DOMAIN before.data.task_proxies
          /\ data.task_proxies[<<it.point, it.name>>].first_parent
                \in DOMAIN Published(FAMILY_PROXIES).updated
    /\ DOMAIN window.added.task_proxies # {}
    /\ window.deltas.task_proxies.pruned # {}
    /\ BuffersEmpty(Self)

\* The tasks of the batch given to update_task_proxies, split by whether the
\* proxy id was in the store or in added[task_proxies].
BatchTasks ==
    IF op.name # "update_task_proxies" THEN {}
    ELSE SeqToSet(op.nodes.tasks)

UnknownBatchTasks ==
    {it \in BatchTasks :
        <<it.point, it.name>> \notin DOMAIN before.data.task_proxies
                                     \cup DOMAIN before.added.task_proxies}

FirstParentOf(m, tp_id) ==
    IF tp_id \in DOMAIN m.data.task_proxies
    THEN m.data.task_proxies[tp_id].first_parent
    ELSE m.added.task_proxies[tp_id].first_parent

\* C22: when update_task_proxies is given a live task whose proxy id is
\* neither in the store nor in added[task_proxies], it creates no updated
\* entry for that id, flags no family because of it, and still transcribes
\* every other task of the batch.
UnknownTaskId ==
    UnknownBatchTasks # {} =>
        /\ \A it \in UnknownBatchTasks :
              <<it.point, it.name>> \notin DOMAIN window.updated.task_proxies
        /\ window.state_update_families =
              before.state_update_families
              \cup {FirstParentOf(before, <<it.point, it.name>>) :
                      it \in BatchTasks \ UnknownBatchTasks}
        /\ \A it \in BatchTasks \ UnknownBatchTasks :
              LET tp_id == <<it.point, it.name>>
              IN /\ tp_id \in DOMAIN window.updated.task_proxies
                 /\ Get(window.updated.task_proxies[tp_id], "state", NoState)
                       = it.status
                 /\ Get(window.updated.task_proxies[tp_id], "is_held", FALSE)
                       = it.is_held
                 /\ Get(window.updated.task_proxies[tp_id], "stamp", NoTime)
                       = 2
        /\ window.data = before.data
        /\ window.added = before.added

UnknownTaskIdWitness ==
    /\ op.name = "update_task_proxies"
    /\ Len(op.nodes.tasks) = 2
    /\ op.nodes.tasks[1] \in UnknownBatchTasks
    /\ op.nodes.tasks[2] \notin UnknownBatchTasks
    /\ <<op.nodes.tasks[2].point, op.nodes.tasks[2].name>>
          \in DOMAIN window.updated.task_proxies

\* A manager constructed anew and initiated at the pool of the last call under
\* the configuration now loaded.
FreshStart == initiate_data_model(NewMgr, op.pool, 0, clock)

\* The names an id of the given kind mentions.
NamesOf(key, id) ==
    IF key \in {TASKS, FAMILIES} THEN {id}
    ELSE IF key = EDGES THEN {id[1][1], id[2][1]}
    ELSE {id[2]}

\* C23: after initiate_data_model(reloaded=True) the store's tasks and
\* families are exactly the new configuration's definitions, its proxies and
\* edges exactly those a fresh start generates for the current pool points
\* from the new configuration, no element names anything the new
\* configuration lacks, and ancestors, pool_points, edge_points and the
\* rollup sets are those of a fresh start.
ReloadRebuilds ==
    op.name = "reload" =>
      /\ DOMAIN data.tasks = SeqToSet(TaskNames)
      /\ DOMAIN data.families = FamilyNames
      /\ \A key \in DictKinds : \A id \in DOMAIN data[key] :
            NamesOf(key, id) \subseteq SeqToSet(AllNames)
      /\ data = FreshStart.data
      /\ ancestors = FreshStart.ancestors
      /\ pool_points = op.pool
      /\ max_point = FreshStart.max_point
      /\ min_point = FreshStart.min_point
      /\ edge_points = FreshStart.edge_points
      /\ state_update_families = FreshStart.state_update_families
      /\ updated_state_families = FreshStart.updated_state_families

\* A reload of a store that held proxies and an edge of task B, which the new
\* configuration lacks, at a pool other than the one before.
ReloadRebuildsWitness ==
    /\ op.name = "reload"
    /\ \E tp \in DOMAIN before.data.task_proxies : tp[2] = "B"
    /\ \E e \in DOMAIN before.data.edges : e[2][1] = "B"
    /\ "B" \in DOMAIN before.data.tasks
    /\ before.pool_points # op.pool
    /\ before.edge_points # <<>>
    /\ op.pool # {}
    /\ DOMAIN data.task_proxies # {}

\* C24: during initiate_data_model(reloaded=True), remove_task_jobs is called
\* for exactly the task proxy ids that are keys of the job pool's task_jobs
\* and are not among the newly generated task proxies, and every newly
\* generated task proxy's jobs list is set to exactly the job ids the job
\* pool holds for it; the store's task proxies carry those lists.
ReloadJobReconciliation ==
    op.name = "reload" =>
      LET new_tasks == DOMAIN window.added.task_proxies
          job_tasks == DOMAIN before.job_pool.task_jobs
      IN /\ window.job_pool.calls = job_tasks \ new_tasks
         /\ DOMAIN window.job_pool.task_jobs = job_tasks \cap new_tasks
         /\ \A tp_id \in new_tasks :
               Get(window.added.task_proxies[tp_id], "jobs", <<>>)
                   = Get(before.job_pool.task_jobs, tp_id, <<>>)
         /\ \A tp_id \in DOMAIN data.task_proxies :
               Get(data.task_proxies[tp_id], "jobs", <<>>)
                   = Get(before.job_pool.task_jobs, tp_id, <<>>)

\* A reload with a job pool that holds a job of a task the new configuration
\* lacks, and a job of a task proxy that is generated anew.
ReloadJobReconciliationWitness ==
    /\ op.name = "reload"
    /\ \E tp_id \in window.job_pool.calls : tp_id[2] = "B"
    /\ \E tp_id \in DOMAIN window.added.task_proxies :
          /\ tp_id \in DOMAIN before.job_pool.task_jobs
          /\ tp_id \in DOMAIN data.task_proxies
          /\ Len(data.task_proxies[tp_id].jobs) > 0

\* C25: no step of the data store manager inserts into, replaces in or
\* deletes from the job pool's pool dictionary that is the store's jobs map:
\* when a handler returns, the dictionary holds what the job pool itself had
\* put there when the handler came to apply its deltas.
JobsMapReadOnly ==
    op.name \in {"initiate", "update", "reload"} =>
        job_pool.pool = window.job_pool.pool

\* C26: the checksum put on a non-empty per-kind delta is generate_checksum
\* over the store slice of that kind as it is after the deltas have been
\* applied (the ids of edges, the stamps of every other kind), a delta that
\* is not set gets none, and the checksum is the same for the same strings
\* taken in another order.
ChecksumOfSlice ==
    /\ clock >= 1 =>
          \A key \in DictKinds :
             applied.deltas[key].checksum =
                 IF DeltaIsSet(applied.deltas[key])
                 THEN generate_checksum(
                          SliceStrings(key, applied.data[key]))
                 ELSE NoChecksum
    /\ op.name = "reorder" =>
          /\ DeltaIsSet(applied.deltas[op.key]) =>
                generate_checksum(op.strings)
                    = applied.deltas[op.key].checksum
          /\ generate_checksum(op.strings)
                = generate_checksum(SliceStrings(op.key, applied.data[op.key]))

\* The strings of a slice that the applied delta added to and pruned from,
\* taken in another order than the store's.
ChecksumOfSliceWitness ==
    /\ op.name = "reorder"
    /\ op.strings # SliceStrings(op.key, applied.data[op.key])
    /\ DOMAIN applied.deltas[op.key].added # {}
    /\ applied.deltas[op.key].pruned # {}
    /\ applied.data[op.key] # window.data[op.key]
    /\ applied.deltas[op.key].checksum # NoChecksum

\* Following first_parent from the family proxy fp_id reaches, within the
\* cycle point and within fuel steps, the root family proxy of the point,
\* whose first_parent is empty; every proxy on the way is in the store.
RECURSIVE ReachesRoot(_, _, _)
ReachesRoot(fp_id, point, fuel) ==
    /\ fp_id \in DOMAIN data.family_proxies
    /\ fp_id[1] = point
    /\ data.family_proxies[fp_id].cycle_point = point
    /\ IF Get(data.family_proxies[fp_id], "first_parent", NoId) = NoId
       THEN fp_id = <<point, "root">>
       ELSE /\ fuel > 0
            /\ ReachesRoot(data.family_proxies[fp_id].first_parent, point,
                           fuel - 1)

\* C27: for every family proxy of the store other than a root proxy,
\* ancestors[0] equals first_parent, and following first_parent stays within
\* the cycle point and ends at the point's root family proxy, whose
\* first_parent is empty; the same holds starting from any task proxy.
AncestorConsistency ==
    started =>
      /\ \A fp_id \in DOMAIN data.family_proxies :
            LET fp == data.family_proxies[fp_id]
            IN /\ fp.name # "root" =>
                     /\ Get(fp, "ancestors", <<>>) # <<>>
                     /\ Get(fp, "first_parent", NoId) = fp.ancestors[1]
               /\ ReachesRoot(fp_id, fp.cycle_point, Len(AllNames))
      /\ \A tp_id \in DOMAIN data.task_proxies :
            LET tp == data.task_proxies[tp_id]
            IN /\ Get(tp, "ancestors", <<>>) # <<>>
               /\ Get(tp, "first_parent", NoId) = tp.ancestors[1]
               /\ ReachesRoot(tp.first_parent, tp.cycle_point, Len(AllNames))

\* The ancestor chain of a family proxy: the proxy followed by its ancestors
\* (self.ancestors of its family with the cycle point substituted).
AncestorChain(fp) == <<fp.id>> \o Get(fp, "ancestors", <<>>)

\* C28: for every family proxy of the store, the length of its ancestor
\* chain equals its depth + 1; the chain ends at the root family of its
\* cycle point, which is at depth 0.
AncestorChainLength ==
    started =>
      \A fp_id \in DOMAIN data.family_proxies :
         LET fp == data.family_proxies[fp_id]
         IN /\ Len(AncestorChain(fp)) = fp.depth + 1
            /\ AncestorChain(fp)[fp.depth + 1] = <<fp.cycle_point, "root">>
            /\ fp.name = "root" <=> fp.depth = 0

\* The store holds a root family proxy and a family proxy below it that the
\* last update created.
AncestorChainLengthWitness ==
    /\ op.name = "update"
    /\ \E fp_id \in DOMAIN Published(FAMILY_PROXIES).added :
          /\ fp_id \in DOMAIN data.family_proxies
          /\ data.family_proxies[fp_id].depth = 1
          /\ data.family_proxies[fp_id].first_parent
                \in DOMAIN data.family_proxies
          /\ data.family_proxies[
                 data.family_proxies[fp_id].first_parent].depth = 0

\* The family proxies the last update_data_structure call recomputed.
RolledUp ==
    IF op.name # "update" THEN {}
    ELSE {fp_id \in DOMAIN window.updated.family_proxies :
            "is_held_total" \in DOMAIN window.updated.family_proxies[fp_id]}

\* The most recent view of a child task proxy in the window of the last
\* call: its updated entry when that carries a state, else the store's
\* element, else nothing.
TaskView(tp_id) ==
    IF /\ tp_id \in DOMAIN window.updated.task_proxies
       /\ "state" \in DOMAIN window.updated.task_proxies[tp_id]
    THEN window.updated.task_proxies[tp_id]
    ELSE Get(before.data.task_proxies, tp_id, EmptyMsg)

\* The most recent view of a child family: its updated entry when it was
\* recomputed in the window, else the store's element, else nothing.
FamilyView(fp_id) ==
    IF fp_id \in RolledUp THEN window.updated.family_proxies[fp_id]
    ELSE Get(before.data.family_proxies, fp_id, EmptyMsg)

RECURSIVE ViewCounter(_, _)
ViewCounter(child_families, child_tasks) ==
    IF child_families # <<>>
    THEN CounterAdd(Get(FamilyView(Head(child_families)), "state_totals", <<>>),
                    ViewCounter(Tail(child_families), child_tasks))
    ELSE IF child_tasks # <<>>
    THEN CounterAdd(
            IF Get(TaskView(Head(child_tasks)), "state", NoState) # NoState
            THEN TaskView(Head(child_tasks)).state :> 1 ELSE <<>>,
            ViewCounter(child_families, Tail(child_tasks)))
    ELSE <<>>

RECURSIVE ViewHeld(_, _)
ViewHeld(child_families, child_tasks) ==
    IF child_families # <<>>
    THEN Get(FamilyView(Head(child_families)), "is_held_total", 0)
         + ViewHeld(Tail(child_families), child_tasks)
    ELSE IF child_tasks # <<>>
    THEN (IF Get(TaskView(Head(child_tasks)), "is_held", FALSE) THEN 1 ELSE 0)
         + ViewHeld(child_families, Tail(child_tasks))
    ELSE 0

\* C29: when a family is recomputed, each child task proxy and child family
\* it lists is counted with its most recent value: the value written in this
\* accumulation window if its state or totals were updated, otherwise the
\* store's value, also for a child whose updated entry carries only other
\* fields.
MostRecentView ==
    \A fp_id \in RolledUp :
       LET fam_node == IF fp_id \in DOMAIN before.data.family_proxies
                       THEN before.data.family_proxies[fp_id]
                       ELSE window.added.family_proxies[fp_id]
           fams == Get(fam_node, "child_families", <<>>)
           tsks == Get(fam_node, "child_tasks", <<>>)
       IN /\ Get(window.updated.family_proxies[fp_id], "state_totals", <<>>)
                = ViewCounter(fams, tsks)
          /\ window.updated.family_proxies[fp_id].is_held_total
                = ViewHeld(fams, tsks)

\* ------------------------------------------ the rollup driver step by step
\* update_family_proxies as update_dynamic_elements calls it, one iteration
\* of its while loop per step, the iteration taking any flagged family. The
\* manager has been initiated at some pool and has run
\* increment_graph_elements and update_task_proxies for the current pool;
\* up to MaxFlagged further family proxies of the store or of the added
\* delta are flagged with those update_task_proxies flagged. op.name is the
\* driver's position.
MaxFlagged == 3

InitRollup == InitTasks

KnownFamilies(m) ==
    DOMAIN m.data.family_proxies \cup DOMAIN m.added.family_proxies

\* "if fp_id in fp_data: fam_node = fp_data[fp_id] else: fp_added[fp_id]"
FamilyNode(m, fp_id) ==
    IF fp_id \in DOMAIN m.data.family_proxies
    THEN m.data.family_proxies[fp_id]
    ELSE m.added.family_proxies[fp_id]

FlagFamilies ==
    /\ clock = 0
    /\ \E pool0 \in Pools, pool1 \in Pools :
         \E nodes \in NodeChoices(pool1) :
            /\ window' = update_task_proxies(Incremented(pool0, pool1),
                                             nodes.tasks, 2)
            /\ op' = [name |-> "flag", pool |-> pool1, nodes |-> nodes]
    /\ \E flagged \in SUBSET KnownFamilies(window') :
         /\ Cardinality(flagged) <= MaxFlagged
         /\ before' = [window' EXCEPT
                          !.state_update_families = @ \cup flagged]
    /\ Install(before')
    /\ clock' = 2
    /\ UNCHANGED <<started, mirror, applied, config>>

\* "self.updated_state_families.clear()"
ClearUpdatedFamilies ==
    /\ op.name = "flag"
    /\ updated_state_families' = {}
    /\ op' = [op EXCEPT !.name = "clear"]
    /\ UNCHANGED <<ancestors, pool_points, max_point, min_point, edge_points,
                   state_update_families, data, added, updated, deltas,
                   updates_pending, publish_deltas, raised, clock, started,
                   mirror, before, window, applied, config, job_pool>>

\* One iteration of "while self.state_update_families": the for statement
\* takes one id of the set, the ascent runs, the break leaves the for.
Ascend ==
    /\ op.name \in {"clear", "ascend"}
    /\ ~raised
    /\ state_update_families # {}
    /\ \E fam_id \in state_update_families :
         Install(_family_ascent_point_update(Self, fam_id, clock))
    /\ op' = [op EXCEPT !.name = "ascend"]
    /\ UNCHANGED <<clock, started, mirror, before, window, applied, config>>

\* The while condition is false: update_family_proxies returns.
ReturnRollup ==
    /\ op.name \in {"clear", "ascend"}
    /\ ~raised
    /\ state_update_families = {}
    /\ op' = [op EXCEPT !.name = "return"]
    /\ UNCHANGED <<ancestors, pool_points, max_point, min_point, edge_points,
                   state_update_families, updated_state_families, data,
                   added, updated, deltas, updates_pending, publish_deltas,
                   raised, clock, started, mirror, before, window, applied,
                   config, job_pool>>

NextRollup ==
    FlagFamilies \/ ClearUpdatedFamilies \/ Ascend \/ ReturnRollup

\* The driver is one thread of control: once update_family_proxies is
\* entered, the statement it has reached is executed.
SpecRollup ==
    /\ InitRollup
    /\ [][NextRollup]_vars
    /\ WF_vars(ClearUpdatedFamilies)
    /\ WF_vars(Ascend)
    /\ WF_vars(ReturnRollup)

\* The number of families on the first_parent chain from fp_id up to the
\* family that has no first parent, fp_id included (at most fuel).
RECURSIVE ChainToTop(_, _, _)
ChainToTop(m, fp_id, fuel) ==
    IF fuel = 0 \/ fp_id \notin KnownFamilies(m) THEN 1
    ELSE IF "first_parent" \notin DOMAIN FamilyNode(m, fp_id) THEN 1
    ELSE 1 + ChainToTop(m, FamilyNode(m, fp_id).first_parent, fuel - 1)

\* The work left to the driver: the chain lengths of the flagged families,
\* added up.
RECURSIVE WorkLeft(_, _)
WorkLeft(m, flagged) ==
    IF flagged = {} THEN 0
    ELSE LET fp_id == CHOOSE x \in flagged : TRUE
         IN ChainToTop(m, fp_id, Cardinality(KnownFamilies(m)))
              + WorkLeft(m, flagged \ {fp_id})

FlaggedWork == WorkLeft(Self, state_update_families)

\* C30: rollup termination. Whatever families are flagged when
\* update_family_proxies is entered, and whichever flagged family a loop
\* iteration takes, no error escapes the iteration and it strictly lowers
\* the work left (a natural number: the first_parent chain lengths of the
\* flagged families added up), so the loop ends after finitely many
\* iterations; and when the call returns state_update_families is empty.
RollupTerminates ==
    [][op.name \in {"clear", "ascend"} =>
          /\ ~raised'
          /\ op'.name \in {"ascend", "return"}
          /\ op'.name = "ascend" => FlaggedWork' < FlaggedWork
          /\ op'.name = "return" => state_update_families' = {}]_vars

\* The call has returned after it was entered with a family and its first
\* parent both flagged at one point and a family flagged at another point,
\* and it rolled up a family that was not flagged at entry.
RollupTerminatesWitness ==
    /\ op.name = "return"
    /\ \E fp_id \in before.state_update_families :
         /\ fp_id[2] # "root"
         /\ <<fp_id[1], "root">> \in before.state_update_families
         /\ \E other \in before.state_update_families : other[1] # fp_id[1]
    /\ updated_state_families \ before.state_update_families # {}
    /\ state_update_families = {}

\* C31: rollup once per family. Between the statements of one
\* update_family_proxies run no family proxy is both rolled up already (in
\* updated_state_families) and flagged: a flagged family is always taken and
\* recomputed by a later loop iteration, so a family that is in both sets has
\* its counters computed and merged a second time in the same run.
RollupOncePerFamily ==
    op.name \in {"clear", "ascend"} =>
        state_update_families \cap updated_state_families = {}

\* The family proxies on the first_parent chain from fp_id up to the family
\* that has no first parent, fp_id included.
RECURSIVE ChainOf(_, _, _)
ChainOf(m, fp_id, fuel) ==
    IF fuel = 0 \/ fp_id \notin KnownFamilies(m) THEN {fp_id}
    ELSE IF "first_parent" \notin DOMAIN FamilyNode(m, fp_id) THEN {fp_id}
    ELSE {fp_id} \cup ChainOf(m, FamilyNode(m, fp_id).first_parent, fuel - 1)

\* The task proxies the last update_data_structure call transcribed: the
\* tasks handed to it whose proxy was in the store or in the added delta.
TranscribedTasks ==
    IF op.name # "update" THEN {}
    ELSE {tp_id \in {<<it.point, it.name>> : it \in SeqToSet(op.nodes.tasks)} :
            tp_id \in DOMAIN window.data.task_proxies
                        \cup DOMAIN window.added.task_proxies}

\* C32: rollup reaches root. After the update_family_proxies of an
\* update_data_structure call, for every family that was flagged (the first
\* parent of a task proxy whose state was transcribed), that family and every
\* first-parent ancestor of it, up to and including the root proxy of its
\* cycle point, has an entry in updated[family_proxies] that carries the
\* recomputed state, states, state_totals, is_held and is_held_total.
RollupReachesRoot ==
    \A tp_id \in TranscribedTasks :
       LET chain == ChainOf(window, FirstParentOf(window, tp_id),
                            Cardinality(KnownFamilies(window)))
       IN /\ <<tp_id[1], "root">> \in chain
          /\ \A anc \in chain :
                /\ anc \in DOMAIN window.updated.family_proxies
                /\ {"state", "states", "state_totals", "is_held",
                    "is_held_total"}
                      \subseteq DOMAIN window.updated.family_proxies[anc]

\* The counters of a family proxy message agree with one another.
ConsistentCounters(msg) ==
    LET states == Get(msg, "states", <<>>)
        totals == Get(msg, "state_totals", <<>>)
    IN /\ \A i \in 1..Len(states) : \A j \in 1..Len(states) :
             states[i] = states[j] => i = j
       /\ SeqToSet(states) = DOMAIN totals
       /\ \A s \in DOMAIN totals : totals[s] > 0
       /\ Get(msg, "is_held", FALSE) = (Get(msg, "is_held_total", 0) > 0)

\* C33: consistency of emitted family counters. In every family proxy entry
\* of updated[family_proxies] that a rollup has been merged into, states
\* holds each state at most once and is exactly the set of keys of
\* state_totals, every count of state_totals is positive, and is_held is
\* true exactly when is_held_total > 0.
EmittedCountersConsistent ==
    \A fp_id \in updated_state_families \cap DOMAIN updated.family_proxies :
       ConsistentCounters(updated.family_proxies[fp_id])

\* C34: edge_points after increment. After every increment_graph_elements
\* call with a non-empty pool (pool_points is only set there, and
\* edge_points is left alone when the pool is empty), every target set of
\* edge_points is a subset of pool_points, and every source point that is
\* still a key of edge_points is in pool_points or has a target in
\* pool_points.
EdgePointsAfterIncrement ==
    pool_points # {} =>
        \A s_point \in DOMAIN edge_points :
           /\ edge_points[s_point] \subseteq pool_points
           /\ \/ s_point \in pool_points
              \/ edge_points[s_point] \cap pool_points # {}

\* An update with a new pool whose increment deleted a source entry, took a
\* target that left the pool out of an entry it kept, and kept a source
\* outside the pool for its target in the pool.
EdgePointsAfterIncrementWitness ==
    /\ op.name = "update"
    /\ op.pool # {}
    /\ DOMAIN before.edge_points \ DOMAIN edge_points # {}
    /\ \E s_point \in DOMAIN edge_points \cap DOMAIN before.edge_points :
         before.edge_points[s_point] \ edge_points[s_point] # {}
    /\ \E s_point \in DOMAIN edge_points :
         s_point \notin pool_points /\ edge_points[s_point] # {}

\* The task proxy ids the manager m knows, in the store or in the added delta.
KnownTaskProxies(m) ==
    DOMAIN m.data.task_proxies \cup DOMAIN m.added.task_proxies

\* What generating task proxies can touch: the added proxies, the id lists of
\* the workflow and of the task definitions, and the families' children.
ProxyView(m) ==
    <<m.added.task_proxies, m.added.family_proxies,
      Get(m.updated.workflow, "task_proxies", <<>>),
      Get(m.updated.workflow, "family_proxies", <<>>),
      [t_id \in DOMAIN m.updated.tasks |->
          Get(m.updated.tasks[t_id], "proxies", <<>>)],
      [fp_id \in DOMAIN m.updated.family_proxies |->
          Get(m.updated.family_proxies[fp_id], "child_tasks", <<>>)]>>

\* The points whose graph elements the last handler call generated: the
\* points new to the pool (all of them when the manager started afresh).
GeneratedPoints ==
    IF op.name \in {"initiate", "reload"} THEN op.pool
    ELSE IF op.name = "update" THEN op.pool \ before.pool_points
    ELSE {}

\* C35: ghost task generation is idempotent. In the accumulation window of
\* every handler call, calling generate_ghost_task for a task proxy id that
\* is in the store or in added[task_proxies] returns the manager unchanged
\* (no new entry, no id appended to workflow.task_proxies, to a task
\* definition's proxies or to a family's child_tasks), and generating once
\* more the graph elements of a point the call generated creates no proxy and
\* appends no proxy id.
GhostTaskIdempotent ==
    /\ \A tp_id \in KnownTaskProxies(window) :
          generate_ghost_task(window, tp_id[2], tp_id, tp_id[1], clock + 1)
             = window
    /\ \A point \in GeneratedPoints :
          ProxyView(generate_graph_elements(window, point, clock + 1))
             = ProxyView(window)

\* An update that generated a new point: the window holds task proxies in the
\* store and others in the added delta.
GhostTaskIdempotentWitness ==
    /\ op.name = "update"
    /\ DOMAIN window.data.task_proxies # {}
    /\ DOMAIN window.added.task_proxies # {}
    /\ GeneratedPoints # {}

\* The points the increment of the last update_data_structure call scheduled
\* for pruning: the prune loop's collection on the edge_points left by the
\* generation of the new points.
ScheduledForPruning ==
    IF op.name # "update" \/ op.pool = {} THEN {}
    ELSE PrunePointSet(
           GenerateNewPoints([before EXCEPT !.pool_points = op.pool],
                             op.pool \ before.pool_points,
                             clock).edge_points,
           op.pool)

\* C36: a pool point is never pruned. In every handler call no cycle point
\* of the new pool_points is scheduled for pruning, and no task proxy or
\* family proxy whose cycle point is in the pool is put into a pruned list.
PoolPointNeverPruned ==
    /\ ScheduledForPruning \cap window.pool_points = {}
    /\ \A id \in window.deltas.task_proxies.pruned
                   \cup window.deltas.family_proxies.pruned :
          /\ id[1] \notin window.pool_points
          /\ id \in DOMAIN before.data.task_proxies
                      \cup DOMAIN before.data.family_proxies =>
                Get(before.data.task_proxies @@ before.data.family_proxies,
                    id, EmptyMsg).cycle_point \notin window.pool_points

\* An update with a non-empty pool that scheduled points and put task
\* proxies and family proxies of a point next to the pool into the pruned
\* lists.
PoolPointNeverPrunedWitness ==
    /\ op.name = "update"
    /\ ScheduledForPruning # {}
    /\ \E id \in window.deltas.task_proxies.pruned :
         \E p \in window.pool_points : id[1] = p + 1 \/ id[1] + 1 = p
    /\ window.deltas.family_proxies.pruned # {}

\* C37: no dangling edge ids on nodes. After every handler call, every edge
\* id in the edges field of a task proxy of the store is the id of an edge of
\* the store, and it is listed there once.
NoDanglingEdgeIds ==
    \A tp_id \in DOMAIN data.task_proxies :
       LET edges == Get(data.task_proxies[tp_id], "edges", <<>>)
       IN /\ \A i \in 1..Len(edges) : edges[i] \in DOMAIN data.edges
          /\ \A i \in 1..Len(edges) : \A j \in 1..Len(edges) :
                edges[i] = edges[j] => i = j

\* C38: workflow edge index matches the store. After every handler call the
\* list of edge ids of the workflow element holds exactly the ids of the
\* edges of the store, each once.
WorkflowEdgeIndex ==
    started =>
        LET edges == Get(data.workflow, "edges", <<>>)
        IN /\ SeqToSet(edges) = DOMAIN data.edges
           /\ \A i \in 1..Len(edges) : \A j \in 1..Len(edges) :
                 edges[i] = edges[j] => i = j

\* ------------------------------------------------ handlers with broadcasts
\* The handlers when the scheduler's broadcast manager reports changes
\* between the iterations: delta_broadcast records the JSON text of
\* schd.broadcast_mgr.broadcasts (0 is the text of no broadcasts, as read at
\* initiation; 1..MaxBroadcast are the texts after changes).
MaxBroadcast == 1

\* A delta_broadcast that leaves updates_pending as it is.
delta_broadcast_not_pending(m, broadcasts) ==
    [m EXCEPT !.updated.workflow = SetField(@, "broadcasts", broadcasts)]

delta_broadcast(m, broadcasts) ==
    [m EXCEPT !.updated.workflow = SetField(@, "broadcasts", broadcasts),
              !.updates_pending = TRUE]

\* The broadcast manager's change event: the broadcasts differ from those
\* the store's workflow element holds.
DeltaBroadcast ==
    /\ started
    /\ ~raised
    /\ clock <= MaxIter
    /\ op.name # "delta_broadcast"
    /\ \E broadcasts \in 1..MaxBroadcast :
         /\ broadcasts # Get(data.workflow, "broadcasts", 0)
         /\ Install(delta_broadcast(Self, broadcasts))
         /\ op' = [name |-> "delta_broadcast", pool |-> pool_points,
                   nodes |-> NoOp.nodes]
    /\ before' = Self
    /\ UNCHANGED <<clock, started, mirror, window, applied, config>>

NextBroadcast == InitiateDataModel \/ UpdateDataStructure \/ DeltaBroadcast

SpecBroadcast == Init /\ [][NextBroadcast]_vars

\* The last call was an update_data_structure with the pool it had before,
\* not empty, an empty updated_nodes list, no pending update of the job pool
\* and no pending broadcast.
NoOpCall ==
    /\ op.name = "update"
    /\ op.pool # {}
    /\ op.pool = before.pool_points
    /\ ~op.nodes.none
    /\ op.nodes.tasks = <<>>
    /\ ~before.job_pool.updates_pending
    /\ "broadcasts" \notin DOMAIN before.updated.workflow

\* C39: no-op iteration. An update_data_structure call with an unchanged
\* non-empty pool, an empty updated_nodes list, no pending job-pool update and
\* no pending broadcast leaves the store, pool_points, edge_points, min_point
\* and max_point unchanged, and publishes a bundle whose only entry is an
\* empty all-deltas aggregate.
NoOpIteration ==
    NoOpCall =>
        /\ data = before.data
        /\ pool_points = before.pool_points
        /\ edge_points = before.edge_points
        /\ min_point = before.min_point
        /\ max_point = before.max_point
        /\ Len(publish_deltas) = 1
        /\ publish_deltas[1][1] = ALL_DELTAS
        /\ DOMAIN publish_deltas[1][2] = {}

\* A no-op call on a store that holds proxies and edges, after an earlier
\* update applied a broadcast.
NoOpIterationWitness ==
    /\ NoOpCall
    /\ DOMAIN data.task_proxies # {}
    /\ DOMAIN data.edges # {}
    /\ DOMAIN edge_points # {}
    /\ Get(data.workflow, "broadcasts", 0) # 0

\* The last call was an update_data_structure that found a broadcast change
\* recorded by delta_broadcast since the call before it.
BroadcastPending ==
    /\ op.name = "update"
    /\ "broadcasts" \in DOMAIN before.updated.workflow

\* The broadcasts field of the workflow delta in the published bundle, and of
\* the workflow part of its all-deltas entry; 0 where it is not set.
PublishedBroadcasts == Get(Published(WORKFLOW).updated, "broadcasts", 0)

AggregatedBroadcasts ==
    IF WORKFLOW \in DOMAIN Published(ALL_DELTAS)
    THEN Get(Published(ALL_DELTAS)[WORKFLOW].updated, "broadcasts", 0)
    ELSE 0

\* C40: broadcast delta is not lost. A broadcast change recorded by
\* delta_broadcast between two iterations is applied to the store's workflow
\* element and is in the workflow delta of the bundle published by the very
\* next update_data_structure call, whatever the pool and the task updates of
\* that call are; the call leaves no broadcast change buffered, and a call
\* with no broadcast change recorded before it publishes none.
BroadcastDeltaNotLost ==
    op.name = "update" =>
        /\ "broadcasts" \notin DOMAIN updated.workflow
        /\ IF BroadcastPending
           THEN /\ PublishedBroadcasts = before.updated.workflow.broadcasts
                /\ AggregatedBroadcasts = before.updated.workflow.broadcasts
                /\ Get(data.workflow, "broadcasts", 0)
                       = before.updated.workflow.broadcasts
           ELSE /\ PublishedBroadcasts = 0
                /\ AggregatedBroadcasts = 0
                /\ Get(data.workflow, "broadcasts", 0)
                       = Get(before.data.workflow, "broadcasts", 0)

\* A call that applies a broadcast change together with a changed pool and
\* task updates.
BroadcastDeltaNotLostWitness ==
    /\ BroadcastPending
    /\ op.pool # before.pool_points
    /\ op.nodes.tasks # <<>>
    /\ PublishedBroadcasts # 0

====
